---- MODULE Spec2Model ----
(***************************************************************************)
(* A model of the digital photo request backend: the verification-code     *)
(* lifecycle, the order lifecycle, account gating with the login-code      *)
(* second factor, and the admin authorization gate.  Every handler is      *)
(* translated from its source; external services (datastore, cloud         *)
(* storage, email) answer nondeterministically where the code handles      *)
(* their failure.                                                          *)
(***************************************************************************)
EXTENDS Integers, Sequences, FiniteSets, TLC

(***************************************************************************)
(* Bounds of the model                                                     *)
(***************************************************************************)
\* rows ever inserted into verification_codes (row ids 1..MaxCodeRows)
MaxCodeRows == 2
\* rows ever inserted into orders (row ids 1..MaxOrders)
MaxOrders == 2
\* rows ever inserted into orders where the retention cleanup is followed
MaxUploads == 5
\* order-surface requests between their read and their write at one time
MaxInFlight == 1
\* the clock advances in steps of TickStep minutes up to MaxTime
TickStep == 6
MaxTime == 12

(***************************************************************************)
(* Program constants                                                       *)
(***************************************************************************)
\* TOKEN_EXPIRY = '24h', in minutes
TOKEN_EXPIRY == 1440
\* Math.floor(100000 + Math.random() * 900000): the least and greatest code
CodeMin == 100000
CodeMax == 999999
\* cleanupOldOrders(supabase, userEmail, 3)
KeepCount == 3
\* expiry.setMinutes(expiry.getMinutes() + 10): a login code lives 10 minutes
LOGIN_CODE_TTL == 10
\* expiry.setHours(expiry.getHours() + 1): a reset token lives 60 minutes
RESET_TTL == 60

(***************************************************************************)
(* Value spaces                                                            *)
(***************************************************************************)
AdminEmail == "admin@x"
Users == {"alice@x", "bob@x"}
Emails == Users \cup {AdminEmail}
NoEmail == ""

\* the concurrent redemption requests: one client session per user
Reqs == Users

\* the code values the generator draws in the model
CodeSpace == {CodeMin, CodeMax}
\* the code a request body carries: a code value, or 0 for a missing/blank one
BlankCode == 0

\* A link is the sequence <<base, param, param, ...>> of its URL pieces
\* ("base?param&param"); the empty sequence is the empty string.
EmptyLink == << >>
SharedLinks == { <<"u", "dl=0">>, <<"u", "rlkey", "dl=0">> }

VARIABLES
  now,        \* wall clock, minutes
  admins,     \* the admins table: set of emails
  resp,       \* the response the last step sent, NoResp when it sent none
  sent,       \* the emails the last step delivered
  codes,      \* the verification_codes table: set of rows
  nextCodeId, \* next row id of verification_codes
  wins,       \* per row id: number of redemptions answered with success
  redeem,     \* in-flight POST /api/request per client
  adminOp,    \* in-flight create-code or clear-all
  orders,     \* the orders table: set of rows
  nextOrderId,   \* next row id of orders (ids grow with created_at)
  approvalLinks, \* the approval links delivered to the admin's mailbox
  payOp,      \* in-flight request-payment per client
  apprOp,     \* in-flight GET approve per client session
  readyOp,    \* in-flight send-ready-email
  accounts,   \* the accounts table: email -> row
  authOp,     \* in-flight verify-login-code or reset per client session
  uploadOp,   \* in-flight upload per client session
  cloud,      \* the cloud storage: users with a folder, users with a stored file
  created,    \* every order ever inserted: pairs << id, user_email >>
  deployed,   \* the handleUpload of /api/order in service: "retention" or "basic"
  env,               \* process.env: which Dropbox credentials are configured
  cachedAccessToken, \* lib/dropbox: the cached access token, NoAccessToken when null
  tokenExpiresAt,    \* lib/dropbox: its expiry, 0 when null
  tokenOp,           \* getAccessToken calls: position and returned token per caller
  refreshCalls,      \* number of refresh calls issued to the token endpoint
  refreshed,         \* the completed successful refreshes: pairs << token, expiry >>
  candidate,         \* the password handed to validatePassword
  validation,        \* what validatePassword returned for it
  accountRows,       \* the accounts table as the inserts of signup see it: rows
  nextAccountId,     \* next row id of accounts
  signupOp           \* in-flight signup per client session

codeSide == << codes, nextCodeId, wins, redeem, adminOp >>
orderSide == << orders, nextOrderId, approvalLinks, payOp, apprOp, readyOp >>
authSide == << accounts, authOp >>
uploadSide == << uploadOp, cloud, created, deployed >>
tokenSide == << env, cachedAccessToken, tokenExpiresAt, tokenOp, refreshCalls, refreshed >>
passwordSide == << candidate, validation >>
signupSide == << accountRows, nextAccountId, signupOp >>
procSide == << tokenSide, passwordSide, signupSide >>
vars == << now, admins, resp, sent, codeSide, orderSide, authSide, uploadSide, procSide >>

(***************************************************************************)
(* Tokens (lib/auth): jwt.sign / jwt.verify                                *)
(***************************************************************************)
NoToken ==
  [present |-> FALSE, sig |-> FALSE, exp |-> 0,
   email |-> "", isAdmin |-> FALSE, orderId |-> 0, action |-> ""]

\* generateToken(payload) for a session payload {email, isAdmin}
SessionToken(email, isAdm, at) ==
  [present |-> TRUE, sig |-> TRUE, exp |-> at + TOKEN_EXPIRY,
   email |-> email, isAdmin |-> isAdm, orderId |-> 0, action |-> ""]

\* generateToken(payload) for a capability payload {orderId, action:'approve'}
ApprovalToken(orderId, at) ==
  [present |-> TRUE, sig |-> TRUE, exp |-> at + TOKEN_EXPIRY,
   email |-> "", isAdmin |-> FALSE, orderId |-> orderId, action |-> "approve"]

\* a token signed with another secret, and a token past its expiry
Forged(t) == [t EXCEPT !.sig = FALSE]
Expired(t) == [t EXCEPT !.exp = 0]
\* a string that is not a JWT
Malformed == [NoToken EXCEPT !.present = TRUE]

\* the verification without the check of the expiry
verifyToken_ignoresExpiry(token) ==
  IF token.present /\ token.sig THEN token ELSE NoToken

\* verifyToken(token): the payload, or NoToken (null) on any jwt.verify error
verifyToken(token) ==
  IF token.present /\ token.sig /\ now < token.exp THEN token ELSE NoToken

\* db.isAdmin(email): a row of admins with that email
isAdmin(email) == email \in admins

(***************************************************************************)
(* lib/dropbox: getDirectDownloadLink                                      *)
(***************************************************************************)
HasParam(link, p, from) == \E i \in from..Len(link) : link[i] = p
FirstParam(link, p, from) ==
  CHOOSE i \in from..Len(link) :
    link[i] = p /\ \A j \in from..(i-1) : link[j] # p

\* the link returned as stored, without the rewrite
getDirectDownloadLink_asStored(sharedLink) == sharedLink

getDirectDownloadLink(sharedLink) ==
  IF sharedLink = EmptyLink THEN EmptyLink
  ELSE IF Len(sharedLink) >= 2 /\ sharedLink[2] = "dl=0"
       THEN [sharedLink EXCEPT ![2] = "dl=1"]
  ELSE IF HasParam(sharedLink, "dl=0", 3)
       THEN [sharedLink EXCEPT ![FirstParam(sharedLink, "dl=0", 3)] = "dl=1"]
  ELSE IF ~HasParam(sharedLink, "dl=1", 2)
       THEN Append(sharedLink, "dl=1")
  ELSE sharedLink

(***************************************************************************)
(* lib/db: the verification_codes table                                    *)
(***************************************************************************)
NoEntry == [id |-> 0, dropboxLink |-> EmptyLink, isUsed |-> FALSE]

RowsWithCode(code) == { r \in codes : r.code = code }

\* findCodeByValidation(code): .eq('code', code).single(), mapped to an entry
findCodeByValidation(code) ==
  IF Cardinality(RowsWithCode(code)) = 1
  THEN LET r == CHOOSE r \in RowsWithCode(code) : TRUE
       IN [id |-> r.id, dropboxLink |-> r.dropbox_link,
           isUsed |-> (r.used_by_email # NoEmail)]
  ELSE NoEntry

\* markCodeUsed(codeId, email): update ... .eq('id', codeId)
markCodeUsed(codeId, email) ==
  { IF r.id = codeId THEN [r EXCEPT !.used_by_email = email] ELSE r : r \in codes }

\* generateUniqueCode(): the values the do-while loop can return
generateUniqueCode == { c \in CodeSpace : c \notin { r.code : r \in codes } }

\* the table without a constraint on the code column
CodeIsUnique_unconstrained(code) == TRUE

\* the UNIQUE constraint on verification_codes.code
CodeIsUnique(code) == RowsWithCode(code) = {}

\* addNewCode(code, link): insert
addNewCode(code, link) ==
  codes \cup { [id |-> nextCodeId, code |-> code, dropbox_link |-> link,
                used_by_email |-> NoEmail] }

(***************************************************************************)
(* Responses and emails                                                    *)
(***************************************************************************)
\* a response without the deletedFolders / failedFolders fields
NoCount == -1

Resp(op, status, msg) ==
  [op |-> op, status |-> status, msg |-> msg, code |-> 0, link |-> EmptyLink,
   flag |-> "", token |-> NoToken, deletedFolders |-> NoCount, failedFolders |-> NoCount,
   order |-> 0]
NoResp == Resp("", 0, "")

\* resend.emails.send: delivered, answered with { error }, or threw
MailOutcomes == { "ok", "error", "throw" }

PhotoEmail(to, link, code) == [kind |-> "photo", to |-> to, link |-> link, code |-> code]

(***************************************************************************)
(* POST /api/request (redemption)                                          *)
(***************************************************************************)
IdleRedeem == [pc |-> "idle", email |-> NoEmail, code |-> BlankCode, entry |-> NoEntry]

\* the tokens the client of user u may send
RedeemTokens(u) ==
  { SessionToken(u, FALSE, 0), NoToken,
    Forged(SessionToken(u, FALSE, 0)), Expired(SessionToken(u, FALSE, 0)) }

\* the early answers without the check of the link
RedeemEarly_noLinkCheck(token, code) ==
  LET codeEntry == findCodeByValidation(code)
  IN IF ~token.present
     THEN [Resp("request", 401, "Authentication required.") EXCEPT !.flag = "sessionExpired"]
     ELSE IF verifyToken(token) = NoToken
     THEN [Resp("request", 401, "Session expired.") EXCEPT !.flag = "sessionExpired"]
     ELSE IF code = BlankCode THEN Resp("request", 400, "Please enter your code.")
     ELSE IF codeEntry = NoEntry
          THEN [Resp("request", 400, "Code not valid.") EXCEPT !.code = code]
     ELSE IF codeEntry.isUsed
          THEN [Resp("request", 400, "This code has already been used.") EXCEPT !.code = code]
     ELSE NoResp

\* the response of the handler when it answers before marking, else NoResp
RedeemEarly(token, code) ==
  LET codeEntry == findCodeByValidation(code)
  IN IF ~token.present
     THEN [Resp("request", 401, "Authentication required.") EXCEPT !.flag = "sessionExpired"]
     ELSE IF verifyToken(token) = NoToken
     THEN [Resp("request", 401, "Session expired.") EXCEPT !.flag = "sessionExpired"]
     ELSE IF code = BlankCode THEN Resp("request", 400, "Please enter your code.")
     ELSE IF codeEntry = NoEntry
          THEN [Resp("request", 400, "Code not valid.") EXCEPT !.code = code]
     ELSE IF codeEntry.isUsed
          THEN [Resp("request", 400, "This code has already been used.") EXCEPT !.code = code]
     ELSE IF codeEntry.dropboxLink = EmptyLink
          THEN [Resp("request", 400, "Download link not configured.") EXCEPT !.code = code]
     ELSE NoResp

\* from the entry of the handler up to and including the code lookup;
\* userEmail = decoded.email, empty when the payload has no email
RedeemFind(u, token, code) ==
  /\ redeem[u].pc = "idle"
  /\ resp' = RedeemEarly(token, code)
  /\ sent' = {}
  /\ redeem' = IF RedeemEarly(token, code) = NoResp
               THEN [redeem EXCEPT ![u] =
                      [pc |-> "mark", email |-> verifyToken(token).email, code |-> code,
                       entry |-> findCodeByValidation(code)]]
               ELSE redeem
  /\ UNCHANGED << procSide, uploadSide, orderSide, authSide, now, admins, codes, nextCodeId, wins, adminOp >>

\* markCodeUsed, getDirectDownloadLink, sendPhotoEmail and the response;
\* dbOk: the update succeeded; mailOk: the email was delivered
RedeemMark(u, dbOk, mailOk) ==
  /\ redeem[u].pc = "mark"
  /\ LET me == redeem[u]
         userEmail == me.email
         downloadLink == getDirectDownloadLink(me.entry.dropboxLink)
     IN IF ~dbOk
        THEN /\ resp' = [Resp("request", 500, "An error occurred.") EXCEPT !.code = me.code]
             /\ sent' = {}
             /\ UNCHANGED << codes, wins >>
        ELSE /\ codes' = markCodeUsed(me.entry.id, userEmail)
             /\ sent' = IF mailOk /\ userEmail # NoEmail
                        THEN { PhotoEmail(userEmail, downloadLink, me.code) } ELSE {}
             /\ resp' = [Resp("request", 200, "Success!")
                           EXCEPT !.code = me.code, !.link = downloadLink]
             /\ wins' = [wins EXCEPT ![me.entry.id] = @ + 1]
  /\ redeem' = [redeem EXCEPT ![u] = IdleRedeem]
  /\ UNCHANGED << procSide, uploadSide, orderSide, authSide, now, admins, nextCodeId, adminOp >>

(***************************************************************************)
(* POST /api/admin: the gate every admin action passes first               *)
(***************************************************************************)
\* the gate deciding by the isAdmin claim of the token
AdminGate_trustsToken(token) ==
  IF verifyToken(token) = NoToken THEN 401
  ELSE IF ~verifyToken(token).isAdmin THEN 403
  ELSE 0

\* 0 when the request may proceed, else the status of the rejection
\* (500: db.isAdmin(decoded.email) throws on a payload without email, at
\* email.toLowerCase())
AdminGate(token) ==
  IF verifyToken(token) = NoToken THEN 401
  ELSE IF verifyToken(token).email = NoEmail THEN 500
  ELSE IF ~isAdmin(verifyToken(token).email) THEN 403
  ELSE 0

\* the answer of POST /api/admin to a request the gate stops; the lookup
\* stands before the try of the handler, so its exception is not answered
GateResp(op, token) ==
  IF AdminGate(token) = 401 THEN Resp(op, 401, "Session expired.")
  ELSE IF AdminGate(token) = 500 THEN Resp(op, 500, "")
  ELSE Resp(op, 403, "Admin access required.")

\* the tokens a request on the admin surface carries in the code lifecycle
CodeAdminTokens == { SessionToken(AdminEmail, TRUE, 0), SessionToken("alice@x", FALSE, 0) }

(***************************************************************************)
(* create-code: handleCreateCode of POST /api/admin ("admin") and the      *)
(* standalone POST /api/admin/create-code ("endpoint")                     *)
(***************************************************************************)
IdleAdminOp == [pc |-> "idle", variant |-> "", code |-> 0, fetched |-> {}]

\* the gate and generateUniqueCode
CreateCodeGen(variant, token, code) ==
  /\ adminOp.pc = "idle"
  /\ sent' = {}
  /\ IF variant = "endpoint" /\ ~token.present
     THEN /\ resp' = Resp("create-code", 401, "Authentication required.")
          /\ UNCHANGED adminOp
     ELSE IF variant = "endpoint" /\ AdminGate(token) = 500
     THEN /\ resp' = Resp("create-code", 500, "An error occurred. Please try again.")
          /\ UNCHANGED adminOp
     ELSE IF AdminGate(token) # 0
     THEN /\ resp' = GateResp("create-code", token)
          /\ UNCHANGED adminOp
     ELSE /\ nextCodeId <= MaxCodeRows
          /\ code \in generateUniqueCode
          /\ adminOp' = [IdleAdminOp EXCEPT !.pc = "insert", !.variant = variant, !.code = code]
          /\ resp' = NoResp
  /\ UNCHANGED << procSide, uploadSide, orderSide, authSide, now, admins, codes, nextCodeId, wins, redeem >>

\* the folder, the shared link, addNewCode and the response;
\* link: the shared link the cloud storage returned, empty when it failed
CreateCodeInsert(link) ==
  /\ adminOp.pc = "insert"
  /\ sent' = {}
  /\ adminOp' = IdleAdminOp
  /\ IF adminOp.variant = "endpoint" /\ link = EmptyLink
     THEN /\ resp' = Resp("create-code", 500, "Failed to create Dropbox folder")
          /\ UNCHANGED << codes, nextCodeId >>
     ELSE IF ~CodeIsUnique(adminOp.code)
     THEN /\ resp' = Resp("create-code", 500, "An error occurred.")
          /\ UNCHANGED << codes, nextCodeId >>
     ELSE /\ codes' = addNewCode(adminOp.code, link)
          /\ nextCodeId' = nextCodeId + 1
          /\ resp' = [Resp("create-code", 200, "Code created successfully!")
                        EXCEPT !.code = adminOp.code, !.link = link]
  /\ UNCHANGED << procSide, uploadSide, orderSide, authSide, now, admins, wins, redeem >>

(***************************************************************************)
(* clear-all: handleClearAll / POST /api/admin/clear-all, db.clearAllCodes *)
(***************************************************************************)
\* the folder loop counting every failure as a success
deleteFolders_uncounted(fetched, failed) ==
  [deleted |-> Cardinality(fetched), failed |-> 0]

\* for (const code of codes) { deleteFolder(...) ? deletedFolders++ : failedFolders++ };
\* failed: the fetched codes whose folder the cloud storage did not delete
deleteFolders(fetched, failed) ==
  [deleted |-> Cardinality(fetched \ failed), failed |-> Cardinality(failed)]

\* the gate and getAllCodes; dbOk: the select succeeded (else getAllCodes
\* returns [])
ClearAllFetch(variant, token, dbOk) ==
  /\ adminOp.pc = "idle"
  /\ sent' = {}
  /\ IF variant = "endpoint" /\ ~token.present
     THEN /\ resp' = Resp("clear-all", 401, "Authentication required.")
          /\ UNCHANGED adminOp
     ELSE IF variant = "endpoint" /\ AdminGate(token) = 500
     THEN /\ resp' = Resp("clear-all", 500, "An error occurred. Please try again.")
          /\ UNCHANGED adminOp
     ELSE IF AdminGate(token) # 0
     THEN /\ resp' = GateResp("clear-all", token)
          /\ UNCHANGED adminOp
     ELSE /\ adminOp' = [IdleAdminOp EXCEPT !.pc = "delete", !.variant = variant,
                            !.fetched = IF dbOk THEN { r.code : r \in codes } ELSE {}]
          /\ resp' = NoResp
  /\ UNCHANGED << procSide, uploadSide, orderSide, authSide, now, admins, codes, nextCodeId, wins, redeem >>

\* delete().not('id','is',null), then deleteFolder for every fetched row;
\* dbOk: the delete succeeded; failed: the folders that were not deleted
ClearAllDelete(dbOk, failed) ==
  /\ adminOp.pc = "delete"
  /\ failed \subseteq adminOp.fetched
  /\ sent' = {}
  /\ adminOp' = IdleAdminOp
  /\ IF ~dbOk
     THEN /\ resp' = Resp("clear-all", 500, "An error occurred.")
          /\ UNCHANGED codes
     ELSE /\ codes' = {}
          /\ resp' = [Resp("clear-all", 200, "All data cleared!")
                        EXCEPT !.deletedFolders = deleteFolders(adminOp.fetched, failed).deleted,
                               !.failedFolders =
                                  IF adminOp.variant = "endpoint"
                                  THEN deleteFolders(adminOp.fetched, failed).failed
                                  ELSE NoCount]
  /\ UNCHANGED << procSide, uploadSide, orderSide, authSide, now, admins, nextCodeId, wins, redeem >>

(***************************************************************************)
(* The orders table and POST /api/order: upload                            *)
(***************************************************************************)
Statuses == << "pending", "paid", "approved", "completed" >>

\* a timestamp column that was never set (null)
NoTime == -1

NoOrder == [id |-> 0, user_email |-> NoEmail, status |-> "", verification_code |-> 0,
            pickup_instructions |-> "", payment_requested_at |-> NoTime,
            approved_at |-> NoTime, completed_at |-> NoTime]

\* .eq('id', orderId).single(): the row, or NoOrder
OrderById(orderId) ==
  IF \E r \in orders : r.id = orderId
  THEN CHOOSE r \in orders : r.id = orderId
  ELSE NoOrder

\* the timestamp column each status update writes with the status
\* (new Date().toISOString())
Stamp(r, status) ==
  IF status = "paid" THEN [r EXCEPT !.payment_requested_at = now]
  ELSE IF status = "approved" THEN [r EXCEPT !.approved_at = now]
  ELSE IF status = "completed" THEN [r EXCEPT !.completed_at = now]
  ELSE r

\* update({status, <status>_at: new Date().toISOString()}).eq('id', orderId)
SetStatus(orderId, status) ==
  { IF r.id = orderId THEN Stamp([r EXCEPT !.status = status], status) ELSE r
    : r \in orders }

\* cleanupOldOrders(supabase, userEmail, keepCount): the table after deleting
\* all but the newest keepCount orders of the user
cleanupOldOrders(rows, userEmail, keepCount) ==
  { r \in rows :
      r.user_email = userEmail =>
        Cardinality({ q \in rows : q.user_email = userEmail /\ q.id > r.id }) < keepCount }

\* the session tokens the client of user u sends on the order surface
OrderTokens(u) == { SessionToken(u, FALSE, 0), Forged(SessionToken(u, FALSE, 0)) }

\* dropbox.createFolder(folderPath) and dropbox.uploadFile(fileBuffer, filePath)
createFolder(store, userEmail) == [store EXCEPT !.folders = @ \cup {userEmail}]
uploadFile(store, userEmail) == [store EXCEPT !.files = @ \cup {userEmail}]

\* handleUpload run from its first line to its response with no other request
\* in between; uploadOk: the file was stored; dbOk: the insert succeeded;
\* userEmail.replace throws on a payload without email (caught: 500)
Upload(u, token, country, phone, uploadOk, dbOk) ==
  LET decoded == verifyToken(token)
      userEmail == decoded.email
      order == [id |-> nextOrderId, user_email |-> userEmail, status |-> "pending",
                verification_code |-> 0, pickup_instructions |-> "",
                payment_requested_at |-> NoTime, approved_at |-> NoTime,
                completed_at |-> NoTime]
  IN /\ sent' = {}
     /\ IF decoded = NoToken
        THEN resp' = Resp("upload", 401, "Session expired.")
             /\ UNCHANGED << orders, nextOrderId, cloud, created >>
        ELSE IF userEmail = NoEmail
        THEN resp' = Resp("upload", 500, "An error occurred.")
             /\ UNCHANGED << orders, nextOrderId, cloud, created >>
        ELSE IF country = ""
        THEN resp' = Resp("upload", 400, "Please select a country.")
             /\ UNCHANGED << orders, nextOrderId, cloud, created >>
        ELSE IF phone = ""
        THEN resp' = Resp("upload", 400, "Please enter your phone number.")
             /\ UNCHANGED << orders, nextOrderId, cloud, created >>
        ELSE IF ~uploadOk
        THEN resp' = Resp("upload", 500, "Failed to upload photo.")
             /\ cloud' = createFolder(cloud, userEmail)
             /\ UNCHANGED << orders, nextOrderId, created >>
        ELSE IF ~dbOk
        THEN resp' = Resp("upload", 500, "Failed to create order.")
             /\ cloud' = uploadFile(createFolder(cloud, userEmail), userEmail)
             /\ UNCHANGED << orders, nextOrderId, created >>
        ELSE /\ nextOrderId <= MaxOrders
             /\ cloud' = uploadFile(createFolder(cloud, userEmail), userEmail)
             /\ orders' = cleanupOldOrders(orders \cup {order}, userEmail, KeepCount)
             /\ created' = created \cup { << order.id, userEmail >> }
             /\ nextOrderId' = nextOrderId + 1
             /\ resp' = [Resp("upload", 200, "Photo uploaded!") EXCEPT !.order = order.id]
     /\ UNCHANGED << procSide, codeSide, authSide, now, admins, approvalLinks, payOp, apprOp, readyOp,
                     uploadOp, deployed >>

(***************************************************************************)
(* POST /api/order: upload, step by step.  The handler in service is       *)
(* either "retention", the handleUpload with the phone check and           *)
(* cleanupOldOrders, or "basic", the handleUpload that checks the country  *)
(* only and has no cleanup                                                 *)
(***************************************************************************)
\* the client sessions that upload concurrently
Sessions == { "s1", "s2" }

IdleUploadOp == [pc |-> "idle", user |-> NoEmail, orderId |-> 0, toDelete |-> {}]

\* the metadata check that asks for the country only
MissingMetadata_countryOnly(variant, country, phone) ==
  IF country = "" THEN "Please select a country." ELSE ""

\* if (!country) ...; if (!phone) ...: the message of the rejection, "" if none
MissingMetadata(variant, country, phone) ==
  IF country = "" THEN "Please select a country."
  ELSE IF variant = "retention" /\ phone = "" THEN "Please enter your phone number."
  ELSE ""

\* the answer that lets an error of the cleanup reach the caller
UploadAnswer_uncaught(orderId, cleanupOk) ==
  IF cleanupOk THEN [Resp("upload", 200, "Photo uploaded!") EXCEPT !.order = orderId]
  ELSE Resp("upload", 500, "An error occurred.")

\* res.status(200).json({ success: true, message: 'Photo uploaded!', order }),
\* whatever the cleanup did (its errors are caught and logged)
UploadAnswer(orderId, cleanupOk) ==
  [Resp("upload", 200, "Photo uploaded!") EXCEPT !.order = orderId]

\* ids of the user's orders, and those beyond the newest keepCount:
\* .order('created_at', { ascending: false }) and orders.slice(keepCount)
OrdersOf(userEmail) == { r.id : r \in { q \in orders : q.user_email = userEmail } }
BeyondNewest(ids, keepCount) ==
  { i \in ids : Cardinality({ j \in ids : j > i }) >= keepCount }

\* handleUpload up to and including the insert of the order
UploadInsert(s, token, country, phone, uploadOk, dbOk) ==
  LET decoded == verifyToken(token)
      userEmail == decoded.email
      order == [id |-> nextOrderId, user_email |-> userEmail, status |-> "pending",
                verification_code |-> 0, pickup_instructions |-> "",
                payment_requested_at |-> NoTime, approved_at |-> NoTime,
                completed_at |-> NoTime]
  IN /\ uploadOp[s].pc = "idle"
     /\ sent' = {}
     /\ IF decoded = NoToken
        THEN resp' = Resp("upload", 401, "Session expired.")
             /\ UNCHANGED << orders, nextOrderId, cloud, created, uploadOp >>
        ELSE IF userEmail = NoEmail
        THEN resp' = Resp("upload", 500, "An error occurred.")
             /\ UNCHANGED << orders, nextOrderId, cloud, created, uploadOp >>
        ELSE IF MissingMetadata(deployed, country, phone) # ""
        THEN resp' = Resp("upload", 400, MissingMetadata(deployed, country, phone))
             /\ UNCHANGED << orders, nextOrderId, cloud, created, uploadOp >>
        ELSE IF ~uploadOk
        THEN resp' = Resp("upload", 500, "Failed to upload photo.")
             /\ cloud' = createFolder(cloud, userEmail)
             /\ UNCHANGED << orders, nextOrderId, created, uploadOp >>
        ELSE IF ~dbOk
        THEN resp' = Resp("upload", 500, "Failed to create order.")
             /\ cloud' = uploadFile(createFolder(cloud, userEmail), userEmail)
             /\ UNCHANGED << orders, nextOrderId, created, uploadOp >>
        ELSE /\ nextOrderId <= MaxUploads
             /\ cloud' = uploadFile(createFolder(cloud, userEmail), userEmail)
             /\ orders' = orders \cup {order}
             /\ created' = created \cup { << order.id, userEmail >> }
             /\ nextOrderId' = nextOrderId + 1
             /\ IF deployed = "retention"
                THEN /\ resp' = NoResp
                     /\ uploadOp' = [uploadOp EXCEPT ![s] =
                           [IdleUploadOp EXCEPT !.pc = "cleanup", !.user = userEmail,
                                                !.orderId = order.id]]
                ELSE /\ resp' = UploadAnswer(order.id, TRUE)
                     /\ UNCHANGED uploadOp
     /\ UNCHANGED << procSide, codeSide, authSide, now, admins, approvalLinks, payOp, apprOp, readyOp,
                     deployed >>

\* cleanupOldOrders: the select of the user's orders; dbOk: it succeeded.
\* With nothing to delete, or on an error, the upload answers.
CleanupRead(s, dbOk) ==
  LET me == uploadOp[s]
      idsToDelete == BeyondNewest(OrdersOf(me.user), KeepCount)
  IN /\ me.pc = "cleanup"
     /\ sent' = {}
     /\ IF ~dbOk \/ idsToDelete = {}
        THEN /\ resp' = UploadAnswer(me.orderId, dbOk)
             /\ uploadOp' = [uploadOp EXCEPT ![s] = IdleUploadOp]
        ELSE /\ resp' = NoResp
             /\ uploadOp' = [uploadOp EXCEPT ![s] = [me EXCEPT !.pc = "delete",
                                                              !.toDelete = idsToDelete]]
     /\ UNCHANGED << procSide, codeSide, orderSide, authSide, now, admins, cloud, created, deployed >>

\* cleanupOldOrders: delete().in('id', idsToDelete), then the answer of the
\* upload; dbOk: the delete succeeded
CleanupDelete(s, dbOk) ==
  LET me == uploadOp[s]
  IN /\ me.pc = "delete"
     /\ sent' = {}
     /\ orders' = IF dbOk THEN { r \in orders : r.id \notin me.toDelete } ELSE orders
     /\ resp' = UploadAnswer(me.orderId, dbOk)
     /\ uploadOp' = [uploadOp EXCEPT ![s] = IdleUploadOp]
     /\ UNCHANGED << procSide, codeSide, authSide, now, admins, nextOrderId, approvalLinks,
                     payOp, apprOp, readyOp, cloud, created, deployed >>

(***************************************************************************)
(* request-payment: handleRequestPayment of POST /api/order ("order") and  *)
(* the standalone POST /api/order/request-payment ("endpoint")             *)
(***************************************************************************)
IdlePayOp == [pc |-> "idle", variant |-> "", orderId |-> 0]

\* the number of order-surface requests that have read and not yet written
ApprovalsInFlight == Cardinality({ s \in Sessions : apprOp[s].pc # "idle" })
InFlight ==
  Cardinality({ u \in Users : payOp[u].pc # "idle" })
    + ApprovalsInFlight + (IF readyOp.pc # "idle" THEN 1 ELSE 0)

ApprovalEmail(orderId, token) ==
  [kind |-> "approval", to |-> AdminEmail, orderId |-> orderId, token |-> token]

\* ids of the user's pending orders
PendingOf(userEmail) ==
  { r.id : r \in { q \in orders : q.user_email = userEmail /\ q.status = "pending" } }
\* .order('created_at', { ascending: false }).limit(1)
Newest(ids) == CHOOSE i \in ids : \A j \in ids : j <= i

\* the query by id alone
OwnOrder_anyUser(orderId, userEmail) == { q \in orders : q.id = orderId }

\* .eq('user_email', decoded.email).eq('id', orderId)
OwnOrder(orderId, userEmail) ==
  { q \in orders : q.id = orderId /\ q.user_email = userEmail }

\* the token check and the order query; orderId 0: no orderId in the body
RequestPaymentRead(u, variant, token, orderId) ==
  LET decoded == verifyToken(token)
      found == IF orderId # 0
               THEN { r.id : r \in OwnOrder(orderId, decoded.email) }
               ELSE PendingOf(decoded.email)
  IN /\ payOp[u].pc = "idle"
     /\ sent' = {}
     /\ IF decoded = NoToken
        THEN resp' = Resp("request-payment", 401, "Session expired.") /\ UNCHANGED payOp
        ELSE IF found = {}
        THEN /\ resp' = Resp("request-payment", 404,
                             IF variant = "endpoint" /\ orderId = 0
                             THEN "No pending order found." ELSE "Order not found.")
             /\ UNCHANGED payOp
        ELSE /\ InFlight < MaxInFlight
             /\ resp' = NoResp
             /\ payOp' = [payOp EXCEPT ![u] =
                   [pc |-> "send", variant |-> variant, orderId |-> Newest(found)]]
     /\ UNCHANGED << procSide, uploadSide, codeSide, authSide, now, admins, orders, nextOrderId, approvalLinks,
                     apprOp, readyOp >>

\* generateToken, the email to the admin and the status update;
\* mail: "ok" delivered, "error" the send returned an error, "throw" it threw
RequestPaymentWrite(u, mail) ==
  LET me == payOp[u]
      approvalToken == ApprovalToken(me.orderId, now)
      stops == mail = "throw" \/ (mail = "error" /\ me.variant = "endpoint")
  IN /\ me.pc = "send"
     /\ payOp' = [payOp EXCEPT ![u] = IdlePayOp]
     /\ sent' = IF mail = "ok" THEN { ApprovalEmail(me.orderId, approvalToken) } ELSE {}
     /\ approvalLinks' = IF mail = "ok" THEN approvalLinks \cup {me.orderId} ELSE approvalLinks
     /\ IF stops
        THEN /\ resp' = Resp("request-payment", 500,
                             IF mail = "error" THEN "Failed to send email to admin."
                             ELSE "An error occurred.")
             /\ UNCHANGED orders
        ELSE /\ orders' = SetStatus(me.orderId, "paid")
             /\ resp' = Resp("request-payment", 200,
                             IF me.variant = "endpoint" THEN "Payment request sent to admin!"
                             ELSE "Payment request sent!")
     /\ UNCHANGED << procSide, uploadSide, codeSide, authSide, now, admins, nextOrderId, apprOp, readyOp >>

(***************************************************************************)
(* GET approve: handleApprove of /api/order ("order") and the standalone   *)
(* GET /api/order/approve ("endpoint"), which also mints a code            *)
(***************************************************************************)
IdleApprOp == [pc |-> "idle", variant |-> "", orderId |-> 0, token |-> NoToken,
               user_email |-> NoEmail, code |-> 0]

CodeEmail(to, code) == [kind |-> "code", to |-> to, code |-> code]
ApprovedEmail(to) == [kind |-> "approved", to |-> to]

\* the tokens a GET approve request may carry: the links in the admin's
\* mailbox, a link with another signature, an outdated link, a session token
ApproveTokens ==
  { ApprovalToken(o, 0) : o \in approvalLinks }
    \cup { Forged(ApprovalToken(o, 0)) : o \in 1..MaxOrders }
    \cup { Expired(ApprovalToken(o, 0)) : o \in 1..MaxOrders }
    \cup { SessionToken(AdminEmail, TRUE, 0), NoToken }

\* the link check without the comparison of the decoded orderId
ApproveLinkInvalid_anyOrder(token, orderId) ==
  \/ verifyToken(token) = NoToken
  \/ verifyToken(token).action # "approve"

\* !decoded || decoded.orderId !== orderId || decoded.action !== 'approve'
ApproveLinkInvalid(token, orderId) ==
  \/ verifyToken(token) = NoToken
  \/ verifyToken(token).orderId # orderId
  \/ verifyToken(token).action # "approve"

\* the status check recognising approved orders only
AlreadyApproved_approvedOnly(order) == order.status = "approved"

\* order.status === 'approved' || order.status === 'completed'
AlreadyApproved(order) == order.status \in {"approved", "completed"}

\* the checks of the link and the order query; approve: the approve=true
\* parameter is present; orderId 0: no orderId in the query
ApproveRead(s, variant, approve, orderId, token) ==
  LET order == OrderById(orderId)
  IN /\ apprOp[s].pc = "idle"
     /\ sent' = {}
     /\ IF (variant = "order" /\ ~approve) \/ orderId = 0 \/ ~token.present
        THEN resp' = Resp("approve", 200, "Invalid link.") /\ UNCHANGED apprOp
        ELSE IF ApproveLinkInvalid(token, orderId)
        THEN resp' = Resp("approve", 200, "Invalid or expired link.") /\ UNCHANGED apprOp
        ELSE IF order = NoOrder
        THEN resp' = Resp("approve", 200, "Order not found.") /\ UNCHANGED apprOp
        ELSE IF AlreadyApproved(order)
        THEN resp' = Resp("approve", 200, "Already Approved") /\ UNCHANGED apprOp
        ELSE /\ InFlight - ApprovalsInFlight < MaxInFlight
             /\ variant = "endpoint" => nextCodeId + ApprovalsInFlight <= MaxCodeRows
             /\ resp' = NoResp
             /\ \E code \in IF variant = "endpoint" THEN generateUniqueCode ELSE {0} :
                  apprOp' = [apprOp EXCEPT ![s] =
                               [pc |-> "write", variant |-> variant, orderId |-> orderId,
                                token |-> token, user_email |-> order.user_email,
                                code |-> code]]
     /\ UNCHANGED << procSide, uploadSide, authSide, now, admins, codes, nextCodeId, wins, redeem, adminOp,
                     orders, nextOrderId, approvalLinks, payOp, readyOp >>

\* the code insert (endpoint), the status update and the email to the user;
\* link: the shared link of the new folder, empty when it failed;
\* mailOk: the send did not throw
ApproveWrite(s, link, mailOk) ==
  LET me == apprOp[s]
      inserted == me.variant = "endpoint" /\ CodeIsUnique(me.code)
  IN /\ me.pc = "write"
     /\ apprOp' = [apprOp EXCEPT ![s] = IdleApprOp]
     /\ me.variant = "order" => link = EmptyLink
     /\ codes' = IF inserted THEN addNewCode(me.code, link) ELSE codes
     /\ nextCodeId' = IF inserted THEN nextCodeId + 1 ELSE nextCodeId
     /\ orders' = { IF r.id = me.orderId
                    THEN [r EXCEPT !.status = "approved",
                                   !.approved_at = now,
                                   !.verification_code =
                                      IF me.variant = "endpoint" THEN me.code ELSE @]
                    ELSE r : r \in orders }
     /\ sent' = IF ~mailOk THEN {}
                ELSE IF me.variant = "endpoint" THEN { CodeEmail(me.user_email, me.code) }
                ELSE { ApprovedEmail(me.user_email) }
     /\ resp' = IF mailOk THEN [Resp("approve", 200, "Approved!") EXCEPT !.code = me.code]
                ELSE IF me.variant = "endpoint"
                THEN Resp("approve", 200, "An error occurred while processing approval.")
                ELSE Resp("approve", 500, "")
     /\ UNCHANGED << procSide, uploadSide, authSide, now, admins, wins, redeem, adminOp,
                     nextOrderId, approvalLinks, payOp, readyOp >>

(***************************************************************************)
(* POST /api/admin: update-pickup and send-ready-email                     *)
(***************************************************************************)
OrderAdminTokens == { SessionToken(AdminEmail, TRUE, 0), SessionToken("alice@x", FALSE, 0) }

\* the update without its .eq('id', orderId) filter
setPickupInstructions_everyOrder(orderId, pickupInstructions) ==
  { [r EXCEPT !.pickup_instructions = pickupInstructions] : r \in orders }

\* update({ pickup_instructions: pickupInstructions || null }).eq('id', orderId)
setPickupInstructions(orderId, pickupInstructions) ==
  { IF r.id = orderId THEN [r EXCEPT !.pickup_instructions = pickupInstructions] ELSE r
    : r \in orders }

\* handleUpdatePickup: update({pickup_instructions}).eq('id', orderId).select().single()
UpdatePickup(token, orderId, pickupInstructions) ==
  /\ sent' = {}
  /\ IF AdminGate(token) # 0
     THEN resp' = GateResp("update-pickup", token) /\ UNCHANGED orders
     ELSE IF orderId = 0
     THEN resp' = Resp("update-pickup", 400, "Order ID is required.") /\ UNCHANGED orders
     ELSE IF OrderById(orderId) = NoOrder
     THEN resp' = Resp("update-pickup", 500, "Failed to update instructions.")
          /\ UNCHANGED orders
     ELSE /\ orders' = setPickupInstructions(orderId, pickupInstructions)
          /\ resp' = Resp("update-pickup", 200, "Instructions updated!")
  /\ UNCHANGED << procSide, uploadSide, codeSide, authSide, now, admins, nextOrderId, approvalLinks,
                  payOp, apprOp, readyOp >>

IdleReadyOp == [pc |-> "idle", orderId |-> 0, user_email |-> NoEmail, instructions |-> ""]
ReadyEmail(to, instructions) == [kind |-> "ready", to |-> to, instructions |-> instructions]

\* handleSendReadyEmail: the gate and the order query
SendReadyRead(token, orderId) ==
  /\ readyOp.pc = "idle"
  /\ sent' = {}
  /\ IF AdminGate(token) # 0
     THEN resp' = GateResp("send-ready-email", token) /\ UNCHANGED readyOp
     ELSE IF orderId = 0
     THEN resp' = Resp("send-ready-email", 400, "Order ID is required.") /\ UNCHANGED readyOp
     ELSE IF OrderById(orderId) = NoOrder
     THEN resp' = Resp("send-ready-email", 404, "Order not found.") /\ UNCHANGED readyOp
     ELSE /\ InFlight < MaxInFlight
          /\ resp' = NoResp
          /\ readyOp' = [pc |-> "send", orderId |-> orderId,
                         user_email |-> OrderById(orderId).user_email,
                         instructions |-> OrderById(orderId).pickup_instructions]
  /\ UNCHANGED << procSide, uploadSide, codeSide, authSide, now, admins, orders, nextOrderId, approvalLinks,
                  payOp, apprOp >>

\* result.success of the awaited sendReadyForPickupEmail
ReadySucceeded_unchecked(mail) == TRUE
ReadySucceeded(mail) == mail = "ok"

\* handleSendReadyEmail: sendReadyForPickupEmail and the status update;
\* mail: the send succeeded, returned {success: false}, or threw (caught by
\* the dispatcher: 500); dbOk: the update succeeded (its result is not read)
SendReadyWrite(mail, dbOk) ==
  /\ readyOp.pc = "send"
  /\ readyOp' = IdleReadyOp
  /\ IF mail = "throw"
     THEN /\ resp' = Resp("send-ready-email", 500, "An error occurred.")
          /\ sent' = {}
          /\ UNCHANGED orders
     ELSE IF ~ReadySucceeded(mail)
     THEN /\ resp' = Resp("send-ready-email", 500, "Failed to send email: ")
          /\ sent' = {}
          /\ UNCHANGED orders
     ELSE /\ sent' = IF mail = "ok"
                     THEN { ReadyEmail(readyOp.user_email, readyOp.instructions) }
                     ELSE {}
          /\ orders' = IF dbOk THEN SetStatus(readyOp.orderId, "completed") ELSE orders
          /\ resp' = Resp("send-ready-email", 200, "Ready for pickup email sent!")
  /\ UNCHANGED << procSide, uploadSide, codeSide, authSide, now, admins, nextOrderId, approvalLinks,
                  payOp, apprOp >>

(***************************************************************************)
(* The accounts table (lib/db) and the password helpers (lib/auth)         *)
(***************************************************************************)
NoCode == 0
NoLink == << >>

NoAccount ==
  [exists |-> FALSE, password |-> << >>, email_verified |-> FALSE,
   email_verification_token |-> NoLink, admin_approved |-> FALSE,
   login_code |-> NoCode, login_code_expiry |-> 0,
   reset_token |-> NoLink, token_expiry |-> 0]

IdleAuthOp ==
  [pc |-> "idle", email |-> NoEmail, code |-> NoCode, token |-> NoLink, hash |-> << >>]

\* bcrypt.hash and bcrypt.compare
hashPassword(password) == << "bcrypt", password >>
comparePassword(password, hash) == hash = hashPassword(password)

\* the password a user chose at signup, and another one
Passwords == { "Passw0rd!", "Wr0ng-pw!" }
GoodPassword == "Passw0rd!"

\* generateResetToken(): the random token minted for an account
VerificationToken(email) == << "verify", email >>
ResetToken(email) == << "reset", email >>

\* findAccountByEmail(email): the row, or NoAccount (null)
findAccountByEmail(email) == accounts[email]

\* createAccount(email, hashedPassword, verificationToken)
createAccount(email, hashedPassword, verificationToken) ==
  [accounts EXCEPT ![email] =
     [NoAccount EXCEPT !.exists = TRUE, !.password = hashedPassword,
                       !.email_verification_token = verificationToken]]

\* setLoginCode(email): the code and its expiry, 10 minutes from now
setLoginCode(email, code) ==
  [accounts EXCEPT ![email] =
     IF @.exists THEN [@ EXCEPT !.login_code = code,
                                !.login_code_expiry = now + LOGIN_CODE_TTL]
     ELSE @]

\* update({ login_code: null, login_code_expiry: null }).eq('email', email)
clearLoginCode(email) ==
  [accounts EXCEPT ![email] =
     IF @.exists THEN [@ EXCEPT !.login_code = NoCode, !.login_code_expiry = 0] ELSE @]

\* the expiry check of verifyLoginCode without effect
LoginCodeExpired_never(account) == FALSE

\* new Date() > new Date(account.login_code_expiry)
LoginCodeExpired(account) == now > account.login_code_expiry

\* setResetToken(accountId, token, expiry)
setResetToken(email, token, expiry) ==
  [accounts EXCEPT ![email] = [@ EXCEPT !.reset_token = token, !.token_expiry = expiry]]

\* approveUser(email): admin_approved and email_verified both set
approveUser(email) ==
  [accounts EXCEPT ![email] = [@ EXCEPT !.admin_approved = TRUE, !.email_verified = TRUE]]

\* rejectUser(email): the account is deleted
rejectUser(email) == [accounts EXCEPT ![email] = NoAccount]

VerifyMail(to, token) == [kind |-> "verify", to |-> to, token |-> token]
LoginCodeEmail(to, code) == [kind |-> "login-code", to |-> to, code |-> code]
ResetEmail(to, token) == [kind |-> "reset", to |-> to, token |-> token]
NoticeEmail(to, what) == [kind |-> what, to |-> to]

(***************************************************************************)
(* POST /api/auth: signup, verify-email                                    *)
(***************************************************************************)
\* the answer that reports a failed notice as a failure of the operation
NoticeOutcome_failing(answer, mailOk) ==
  IF mailOk THEN answer ELSE Resp(answer.op, 500, "An error occurred.")

\* try { await resend.emails.send(...) } catch (emailError) { console.error }:
\* the answer after a notice is the same whether or not the notice was sent
NoticeOutcome(answer, mailOk) == answer

\* handleSignup for a well-formed email and a password validatePassword
\* accepts; dbOk: the insert succeeded; mailOk: the emails were delivered
\* (the send neither threw nor returned an error)
Signup(email, password, dbOk, mailOk) ==
  LET verificationToken == VerificationToken(email)
  IN /\ IF findAccountByEmail(email).exists
        THEN /\ resp' = Resp("signup", 400, "An account with this email already exists.")
             /\ sent' = {}
             /\ UNCHANGED accounts
        ELSE IF ~dbOk
        THEN /\ resp' = Resp("signup", 500, "An error occurred.")
             /\ sent' = {}
             /\ UNCHANGED accounts
        ELSE /\ accounts' = createAccount(email, hashPassword(password), verificationToken)
             /\ sent' = IF mailOk
                        THEN { VerifyMail(email, verificationToken),
                               NoticeEmail(AdminEmail, "new-user") }
                        ELSE {}
             /\ resp' = NoticeOutcome(Resp("signup", 200, "Account created!"), mailOk)
     /\ UNCHANGED << procSide, uploadSide, codeSide, orderSide, now, admins, authOp >>

\* handleVerifyEmail and db.verifyEmail(token); dbOk: the update succeeded
\* the update that sets the flag and leaves the token in place
markEmailVerified_keepsToken(email) ==
  [accounts EXCEPT ![email] = [@ EXCEPT !.email_verified = TRUE]]

\* verifyEmail: update({email_verified: true, email_verification_token: null})
markEmailVerified(email) ==
  [accounts EXCEPT ![email] =
     [@ EXCEPT !.email_verified = TRUE, !.email_verification_token = NoLink]]

VerifyEmail(token, dbOk) ==
  LET found == { e \in Emails : accounts[e].exists
                                 /\ accounts[e].email_verification_token = token }
      email == CHOOSE e \in found : TRUE
  IN /\ sent' = {}
     /\ IF found = {}
        THEN resp' = Resp("verify-email", 400, "Invalid verification link.")
             /\ UNCHANGED accounts
        ELSE IF accounts[email].email_verified
        THEN resp' = Resp("verify-email", 200, "Email verified successfully!")
             /\ UNCHANGED accounts
        ELSE IF ~dbOk
        THEN resp' = Resp("verify-email", 400, "Failed to verify email.")
             /\ UNCHANGED accounts
        ELSE /\ accounts' = markEmailVerified(email)
             /\ resp' = Resp("verify-email", 200, "Email verified successfully!")
     /\ UNCHANGED << procSide, uploadSide, codeSide, orderSide, now, admins, authOp >>

(***************************************************************************)
(* POST /api/admin: approve-user, reject-user                              *)
(***************************************************************************)
\* handleApproveUser; the notice to the user is sent when mailOk
ApproveUser(token, email, mailOk) ==
  /\ IF AdminGate(token) # 0
     THEN resp' = GateResp("approve-user", token) /\ sent' = {} /\ UNCHANGED accounts
     ELSE IF ~accounts[email].exists
     THEN resp' = Resp("approve-user", 500, "Failed to approve user.")
          /\ sent' = {} /\ UNCHANGED accounts
     ELSE /\ accounts' = approveUser(email)
          /\ sent' = IF mailOk THEN { NoticeEmail(email, "approved") } ELSE {}
          /\ resp' = NoticeOutcome(Resp("approve-user", 200, "approved successfully!"),
                                   mailOk)
  /\ UNCHANGED << procSide, uploadSide, codeSide, orderSide, now, admins, authOp >>

\* handleRejectUser; dbOk: the delete succeeded
RejectUser(token, email, dbOk, mailOk) ==
  /\ IF AdminGate(token) # 0
     THEN resp' = GateResp("reject-user", token) /\ sent' = {} /\ UNCHANGED accounts
     ELSE IF ~dbOk
     THEN resp' = Resp("reject-user", 500, "Failed to reject user.")
          /\ sent' = {} /\ UNCHANGED accounts
     ELSE /\ accounts' = rejectUser(email)
          /\ sent' = IF mailOk THEN { NoticeEmail(email, "rejected") } ELSE {}
          /\ resp' = NoticeOutcome(Resp("reject-user", 200, "rejected and removed."),
                                   mailOk)
  /\ UNCHANGED << procSide, uploadSide, codeSide, orderSide, now, admins, authOp >>

(***************************************************************************)
(* POST /api/auth: login, verify-login-code                                *)
(***************************************************************************)
\* the gating of handleLogin with every check passing
LoginGate_open(account, isAdm) == ""

\* the gating of handleLogin: the flag of the rejection, "" when it passes
LoginGate(account, isAdm) ==
  IF isAdm THEN ""
  ELSE IF ~account.email_verified THEN "needsVerification"
  ELSE IF ~account.admin_approved THEN "pendingApproval"
  ELSE ""

\* handleLogin; code: the login code generateLoginCode draws; dbOk: the
\* update of setLoginCode succeeded; mail: "ok" the code email was delivered,
\* "error" the send returned an error, "throw" it threw
Login(email, password, code, dbOk, mail) ==
  LET account == findAccountByEmail(email)
      gate == LoginGate(account, isAdmin(email))
  IN /\ IF ~account.exists \/ ~comparePassword(password, account.password)
        THEN /\ resp' = Resp("login", 401, "Invalid email or password.")
             /\ sent' = {}
             /\ UNCHANGED accounts
        ELSE IF gate # ""
        THEN /\ resp' = [Resp("login", 403,
                              IF gate = "needsVerification"
                              THEN "Please verify your email first."
                              ELSE "Your account is pending admin approval.")
                           EXCEPT !.flag = gate]
             /\ sent' = {}
             /\ UNCHANGED accounts
        ELSE IF ~dbOk
        THEN /\ resp' = Resp("login", 500, "An error occurred.")
             /\ sent' = {}
             /\ UNCHANGED accounts
        ELSE /\ accounts' = setLoginCode(email, code)
             /\ sent' = IF mail = "ok" THEN { LoginCodeEmail(email, code) } ELSE {}
             /\ resp' = IF mail = "throw"
                        THEN Resp("login", 500, "Failed to send verification code.")
                        ELSE [Resp("login", 200, "Verification code sent to your email.")
                                EXCEPT !.flag = "requiresCode"]
     /\ UNCHANGED << procSide, uploadSide, codeSide, orderSide, now, admins, authOp >>

\* POST /api/auth/login (the standalone endpoint)
LegacyLogin(email, password) ==
  LET account == findAccountByEmail(email)
  IN /\ sent' = {}
     /\ resp' = IF ~account.exists \/ ~comparePassword(password, account.password)
                THEN Resp("auth/login", 401, "Invalid email or password.")
                ELSE [Resp("auth/login", 200, "Login successful!")
                        EXCEPT !.token = SessionToken(email, isAdmin(email), now)]
     /\ UNCHANGED << procSide, uploadSide, codeSide, orderSide, now, admins, accounts, authOp >>

\* handleVerifyLoginCode, db.verifyLoginCode: the select and the checks of
\* the request of session s
VerifyRead(s, email, code) ==
  LET account == accounts[email]
      fails(msg) == resp' = Resp("verify-login-code", 401, msg) /\ UNCHANGED authOp
  IN /\ authOp[s].pc = "idle"
     /\ sent' = {}
     /\ IF ~account.exists THEN fails("Account not found.")
        ELSE IF account.login_code = NoCode THEN fails("No verification code found.")
        ELSE IF LoginCodeExpired(account)
        THEN resp' = NoResp
             /\ authOp' = [authOp EXCEPT ![s] = [IdleAuthOp EXCEPT !.pc = "expire", !.email = email]]
        ELSE IF account.login_code # code THEN fails("Invalid verification code.")
        ELSE resp' = NoResp
             /\ authOp' = [authOp EXCEPT ![s] = [IdleAuthOp EXCEPT !.pc = "clear", !.email = email,
                                                          !.code = code]]
     /\ UNCHANGED << procSide, uploadSide, codeSide, orderSide, now, admins, accounts >>

\* db.verifyLoginCode: the expired code is cleared and the request fails
VerifyExpire(s) ==
  /\ authOp[s].pc = "expire"
  /\ authOp' = [authOp EXCEPT ![s] = IdleAuthOp]
  /\ accounts' = clearLoginCode(authOp[s].email)
  /\ sent' = {}
  /\ resp' = Resp("verify-login-code", 401, "Verification code has expired.")
  /\ UNCHANGED << procSide, uploadSide, codeSide, orderSide, now, admins >>

\* db.verifyLoginCode: the code is cleared; handleVerifyLoginCode: isAdmin,
\* generateToken and the response
VerifyClear(s) ==
  LET email == authOp[s].email
  IN /\ authOp[s].pc = "clear"
     /\ authOp' = [authOp EXCEPT ![s] = IdleAuthOp]
     /\ accounts' = clearLoginCode(email)
     /\ sent' = {}
     /\ resp' = [Resp("verify-login-code", 200, "Login successful!")
                   EXCEPT !.token = SessionToken(email, isAdmin(email), now)]
     /\ UNCHANGED << procSide, uploadSide, codeSide, orderSide, now, admins >>

(***************************************************************************)
(* forgot: handleForgot of POST /api/auth ("auth") and the standalone      *)
(* POST /api/auth/forgot ("endpoint")                                      *)
(***************************************************************************)
SuccessMessage == "If an account exists, a reset link has been sent."

\* dbOk: the update of setResetToken succeeded;
\* mail: "ok" delivered, "error" the send returned an error, "throw" it threw
Forgot(variant, email, dbOk, mail) ==
  LET account == findAccountByEmail(email)
      resetToken == ResetToken(email)
  IN /\ IF ~account.exists
        THEN /\ resp' = Resp("forgot", 200, SuccessMessage)
             /\ sent' = {}
             /\ UNCHANGED accounts
        ELSE IF ~dbOk
        THEN /\ resp' = Resp("forgot", 500,
                             IF variant = "auth" THEN "An error occurred."
                             ELSE "An error occurred. Please try again.")
             /\ sent' = {}
             /\ UNCHANGED accounts
        ELSE /\ accounts' = setResetToken(email, resetToken, now + RESET_TTL)
             /\ sent' = IF mail = "ok" THEN { ResetEmail(email, resetToken) } ELSE {}
             /\ resp' = IF variant = "auth" /\ mail = "throw"
                        THEN Resp("forgot", 500, "An error occurred.")
                        ELSE Resp("forgot", 200, SuccessMessage)
     /\ UNCHANGED << procSide, uploadSide, codeSide, orderSide, now, admins, authOp >>

(***************************************************************************)
(* The clock                                                               *)
(***************************************************************************)
Tick ==
  /\ now + TickStep <= MaxTime
  /\ now' = now + TickStep
  /\ resp' = NoResp
  /\ sent' = {}
  /\ UNCHANGED << procSide, uploadSide, admins, codeSide, orderSide, authSide >>

(***************************************************************************)
(* POST /api/admin: the read actions, send-email and the dispatch          *)
(***************************************************************************)
ReadActions == { "codes", "all-orders", "user-count", "all-users", "pending-users" }
\* getAllCodes and getPendingUsers answer a failed query with an empty list
SwallowsDbError == { "codes", "pending-users" }

\* handleGetCodes, handleGetAllOrders, handleUserCount, handleGetAllUsers,
\* handlePendingUsers; dbOk: the query succeeded
AdminRead(action, token, dbOk) ==
  /\ action \in ReadActions
  /\ sent' = {}
  /\ resp' = IF AdminGate(token) # 0 THEN GateResp(action, token)
             ELSE IF ~dbOk /\ action \notin SwallowsDbError
             THEN Resp(action, 500, "Failed to fetch.")
             ELSE Resp(action, 200, "")
  /\ UNCHANGED << procSide, uploadSide, codeSide, orderSide, authSide, now, admins >>

\* handleSendEmail; mailOk: the send returned without error
SendEmail(token, to, mailOk) ==
  /\ IF AdminGate(token) # 0
     THEN resp' = GateResp("send-email", token) /\ sent' = {}
     ELSE IF to = NoEmail
     THEN resp' = Resp("send-email", 400, "To, subject, and body are required.")
          /\ sent' = {}
     ELSE IF ~mailOk
     THEN resp' = Resp("send-email", 500, "Failed to send email.") /\ sent' = {}
     ELSE resp' = Resp("send-email", 200, "Email sent successfully!")
          /\ sent' = { NoticeEmail(to, "custom") }
  /\ UNCHANGED << procSide, uploadSide, codeSide, orderSide, authSide, now, admins >>

AdminActions ==
  ReadActions \cup { "create-code", "clear-all", "update-pickup", "send-ready-email",
                     "send-email", "approve-user", "reject-user" }

\* the step a POST /api/admin request with this action and token takes first
AdminRequest(action, token) ==
  \/ action = "create-code" /\ \E c \in CodeSpace : CreateCodeGen("admin", token, c)
  \/ action = "clear-all" /\ ClearAllFetch("admin", token, TRUE)
  \/ action = "update-pickup"
       /\ \E o \in 0..MaxOrders : UpdatePickup(token, o, "desk")
  \/ action = "send-ready-email" /\ \E o \in 0..MaxOrders : SendReadyRead(token, o)
  \/ action = "send-email"
       /\ \E mailOk \in BOOLEAN : SendEmail(token, "alice@x", mailOk)
  \/ action = "approve-user" /\ ApproveUser(token, "alice@x", TRUE)
  \/ action = "reject-user"
       /\ \E dbOk \in BOOLEAN : RejectUser(token, "alice@x", dbOk, TRUE)
  \/ action \in ReadActions /\ AdminRead(action, token, TRUE)

\* a row of admins is inserted or deleted in the datastore
AllowListChange(email) ==
  /\ admins' = IF email \in admins THEN admins \ {email} ELSE admins \cup {email}
  /\ resp' = NoResp
  /\ sent' = {}
  /\ UNCHANGED << procSide, uploadSide, codeSide, orderSide, authSide, now >>

(***************************************************************************)
(* lib/dropbox: getAccessToken and its process-wide cache                  *)
(***************************************************************************)
\* minutes a refreshed token is served from the cache: 3.5 hours
REFRESH_AFTER == 210
\* refresh calls issued in a behaviour, and the span of the clock in
\* multiples of REFRESH_AFTER
MaxRefreshCalls == 3
MaxAge == 2

Callers == { "c1", "c2" }

\* null / undefined, the static DROPBOX_ACCESS_TOKEN, and the access_token
\* answered to the refresh call with that number
NoAccessToken == [kind |-> "none", call |-> 0]
StaticAccessToken == [kind |-> "static", call |-> 0]
RefreshedToken(call) == [kind |-> "refreshed", call |-> call]

\* the fallback that hands out whatever the cache holds
EnvAccessToken_cached == cachedAccessToken

\* process.env.DROPBOX_ACCESS_TOKEN: undefined when not configured
EnvAccessToken == IF env.accessToken THEN StaticAccessToken ELSE NoAccessToken

IdleTokenOp == [pc |-> "idle", call |-> 0, returned |-> FALSE, token |-> NoAccessToken]

\* the cache check without the comparison with the clock
CacheValid_ignoresExpiry == cachedAccessToken # NoAccessToken /\ tokenExpiresAt # 0

\* cachedAccessToken && tokenExpiresAt && Date.now() < tokenExpiresAt
CacheValid ==
  cachedAccessToken # NoAccessToken /\ tokenExpiresAt # 0 /\ now < tokenExpiresAt

\* the assignment that keeps the expiry already in the cache
StoreToken_keepsExpiry(token) == << token, tokenExpiresAt >>

\* cachedAccessToken = data.access_token; tokenExpiresAt = Date.now() + 3.5 h:
\* two assignments with no await between them
StoreToken(token) == << token, now + REFRESH_AFTER >>

\* getAccessToken up to its return or to the fetch of the token endpoint
GetAccessToken(c) ==
  LET Return(t) ==
        /\ tokenOp' = [tokenOp EXCEPT ![c] = [IdleTokenOp EXCEPT !.returned = TRUE,
                                                                  !.token = t]]
        /\ UNCHANGED refreshCalls
  IN /\ tokenOp[c].pc = "idle"
     /\ IF CacheValid THEN Return(cachedAccessToken)
        ELSE IF env.accessToken /\ ~env.refreshToken THEN Return(StaticAccessToken)
        ELSE IF ~env.refreshToken \/ ~env.appCredentials THEN Return(EnvAccessToken)
        ELSE /\ refreshCalls < MaxRefreshCalls
             /\ refreshCalls' = refreshCalls + 1
             /\ tokenOp' = [tokenOp EXCEPT ![c] = [IdleTokenOp EXCEPT !.pc = "fetch",
                                                     !.call = refreshCalls + 1]]
     /\ resp' = NoResp
     /\ sent' = {}
     /\ UNCHANGED << env, cachedAccessToken, tokenExpiresAt, refreshed, passwordSide,
                     signupSide, uploadSide, codeSide, orderSide, authSide, now, admins >>

RefreshOutcomes == { "ok", "notOk", "throw" }

\* the answer of the token endpoint reaches the caller; outcome: "ok"
\* (response.ok), "notOk" (!response.ok) or "throw" (an exception of fetch or
\* of reading the response)
RefreshResponse(c, outcome) ==
  LET token == RefreshedToken(tokenOp[c].call)
  IN /\ tokenOp[c].pc = "fetch"
     /\ IF outcome = "ok"
        THEN /\ cachedAccessToken' = StoreToken(token)[1]
             /\ tokenExpiresAt' = StoreToken(token)[2]
             /\ refreshed' = refreshed \cup { << token, now + REFRESH_AFTER >> }
             /\ tokenOp' = [tokenOp EXCEPT ![c] = [IdleTokenOp EXCEPT !.returned = TRUE,
                                                     !.token = cachedAccessToken']]
        ELSE /\ tokenOp' = [tokenOp EXCEPT ![c] = [IdleTokenOp EXCEPT !.returned = TRUE,
                                                     !.token = EnvAccessToken]]
             /\ UNCHANGED << cachedAccessToken, tokenExpiresAt, refreshed >>
     /\ resp' = NoResp
     /\ sent' = {}
     /\ UNCHANGED << env, refreshCalls, passwordSide, signupSide, uploadSide, codeSide,
                     orderSide, authSide, now, admins >>

\* time passes: half or all of the lifetime of a cached token
TokenAges(d) ==
  /\ now + d <= MaxAge * REFRESH_AFTER
  /\ now' = now + d
  /\ resp' = NoResp
  /\ sent' = {}
  /\ UNCHANGED << procSide, uploadSide, admins, codeSide, orderSide, authSide >>

\* a fresh process: nothing cached, no call in progress
InitTokenSide ==
  /\ cachedAccessToken = NoAccessToken
  /\ tokenExpiresAt = 0
  /\ tokenOp = [c \in Callers |-> IdleTokenOp]
  /\ refreshCalls = 0
  /\ refreshed = {}

(***************************************************************************)
(* lib/auth: validatePassword                                              *)
(***************************************************************************)
\* passwords are sequences of characters; the characters of the regular
\* expressions /[A-Z]/, /[a-z]/, /[0-9]/ and of the punctuation class
UpperCase ==
  { "A", "B", "C", "D", "E", "F", "G", "H", "I", "J", "K", "L", "M",
    "N", "O", "P", "Q", "R", "S", "T", "U", "V", "W", "X", "Y", "Z" }
LowerCase ==
  { "a", "b", "c", "d", "e", "f", "g", "h", "i", "j", "k", "l", "m",
    "n", "o", "p", "q", "r", "s", "t", "u", "v", "w", "x", "y", "z" }
Digits == { "0", "1", "2", "3", "4", "5", "6", "7", "8", "9" }
\* [!@#$%^&*()_+\-=\[\]{};':"\\|,.<>\/?]
Symbols ==
  { "!", "@", "#", "$", "%", "^", "&", "*", "(", ")", "_", "+", "-", "=", "[", "]",
    "{", "}", ";", "'", ":", "\"", "\\", "|", ",", ".", "<", ">", "/", "?" }

\* regex.test(password): some character of the password is in the class
Test(class, pw) == \E i \in 1..Len(pw) : pw[i] \in class

MinLength == 8

Invalid(message) == [valid |-> FALSE, message |-> message]
Valid == [valid |-> TRUE, message |-> ""]
NotValidated == [valid |-> FALSE, message |-> "(not called)"]

\* the symbol test that takes every character other than a letter or a digit
HasSymbol_anyOther(pw) ==
  \E i \in 1..Len(pw) : pw[i] \notin UpperCase \cup LowerCase \cup Digits

HasSymbol(pw) == Test(Symbols, pw)

\* validatePassword(password); the empty sequence also stands for a missing
\* password (!password)
validatePassword(pw) ==
  IF pw = << >> \/ Len(pw) < MinLength
  THEN Invalid("Password must be at least 8 characters long.")
  ELSE IF ~Test(UpperCase, pw)
  THEN Invalid("Password must contain at least 1 uppercase letter.")
  ELSE IF ~Test(LowerCase, pw)
  THEN Invalid("Password must contain at least 1 lowercase letter.")
  ELSE IF ~Test(Digits, pw)
  THEN Invalid("Password must contain at least 1 number.")
  ELSE IF ~HasSymbol(pw)
  THEN Invalid("Password must contain at least 1 special character.")
  ELSE Valid

\* a caller (signup, reset) validates the password it received
ValidatePassword ==
  /\ validation = NotValidated
  /\ validation' = validatePassword(candidate)
  /\ resp' = NoResp
  /\ sent' = {}
  /\ UNCHANGED << candidate, tokenSide, signupSide, uploadSide, codeSide, orderSide,
                  authSide, now, admins >>

InitPasswordSide ==
  /\ candidate = << >>
  /\ validation = NotValidated

(***************************************************************************)
(* reset: handleReset of POST /api/auth                                    *)
(***************************************************************************)
\* the characters of the passwords a request body carries
Characters(password) ==
  CASE password = "Passw0rd!" -> << "P", "a", "s", "s", "w", "0", "r", "d", "!" >>
    [] password = "Wr0ng-pw!" -> << "W", "r", "0", "n", "g", "-", "p", "w", "!" >>
    [] password = "N3w-pass!" -> << "N", "3", "w", "-", "p", "a", "s", "s", "!" >>
    [] password = "short" -> << "s", "h", "o", "r", "t" >>
    [] OTHER -> << >>

\* findAccountByResetToken(token): .eq('reset_token', token).single()
findAccountByResetToken(token) ==
  { e \in Emails : accounts[e].exists /\ accounts[e].reset_token = token }

\* the update that also asks for a new email verification
updateAccountPassword_unverifies(email, hashedPassword) ==
  [accounts EXCEPT ![email] =
     IF @.exists
     THEN [@ EXCEPT !.password = hashedPassword, !.reset_token = NoLink,
                    !.token_expiry = 0, !.email_verified = FALSE]
     ELSE @]

\* updateAccountPassword(accountId, hashedPassword): the row of that id, when
\* it is still there
updateAccountPassword(email, hashedPassword) ==
  [accounts EXCEPT ![email] =
     IF @.exists
     THEN [@ EXCEPT !.password = hashedPassword, !.reset_token = NoLink,
                    !.token_expiry = 0]
     ELSE @]

\* new Date() > new Date(account.token_expiry)
ResetExpired(account) == now > account.token_expiry

\* handleReset through findAccountByResetToken and the expiry test
ResetFind(s, token, password) ==
  LET found == findAccountByResetToken(token)
      email == CHOOSE e \in found : TRUE
      fails(msg) == resp' = Resp("reset", 400, msg) /\ UNCHANGED authOp
  IN /\ authOp[s].pc = "idle"
     /\ sent' = {}
     /\ IF token = NoLink \/ password = ""
        THEN fails("Token and password are required.")
        ELSE IF ~validatePassword(Characters(password)).valid
        THEN fails(validatePassword(Characters(password)).message)
        ELSE IF found = {} THEN fails("Invalid reset link.")
        ELSE IF ResetExpired(accounts[email]) THEN fails("Reset link has expired.")
        ELSE /\ resp' = NoResp
             /\ authOp' = [authOp EXCEPT ![s] =
                             [IdleAuthOp EXCEPT !.pc = "reset", !.email = email,
                                                !.token = token,
                                                !.hash = hashPassword(password)]]
     /\ UNCHANGED << procSide, uploadSide, codeSide, orderSide, now, admins, accounts >>

\* handleReset: updateAccountPassword and the answer; a failed update throws
\* and the dispatcher answers 500
ResetUpdate(s, dbOk) ==
  LET me == authOp[s]
  IN /\ me.pc = "reset"
     /\ authOp' = [authOp EXCEPT ![s] = IdleAuthOp]
     /\ sent' = {}
     /\ IF dbOk
        THEN /\ accounts' = updateAccountPassword(me.email, me.hash)
             /\ resp' = Resp("reset", 200, "Password reset successfully!")
        ELSE /\ resp' = Resp("reset", 500, "An error occurred.")
             /\ UNCHANGED accounts
     /\ UNCHANGED << procSide, uploadSide, codeSide, orderSide, now, admins >>

(***************************************************************************)
(* signup of POST /api/auth in its steps, from two client sessions, on the *)
(* accounts table with its UNIQUE email column                             *)
(***************************************************************************)
\* the emails a signup request carries, and String.prototype.toLowerCase
RawEmails == { "alice@x", "Alice@X", "ALICE@X", "bob@x" }
toLowerCase(raw) == IF raw \in { "Alice@X", "ALICE@X" } THEN "alice@x" ELSE raw

IdleSignupOp == [pc |-> "idle", email |-> NoEmail]

\* rows of accounts in a behaviour
MaxAccounts == 3

\* an insert without the constraint on the email column
EmailIsUnique_unconstrained(email) == TRUE

\* email TEXT UNIQUE NOT NULL: no row holds this very text
EmailIsUnique(email) == \A r \in accountRows : r.email # email

\* handleSignup through findAccountByEmail; dbOk: the select succeeded (a
\* failed select returns null, as does a select that finds no row)
SignupFind(s, raw, dbOk) ==
  LET fullEmail == toLowerCase(raw)
      existingAccount == dbOk /\ \E r \in accountRows : r.email = toLowerCase(fullEmail)
  IN /\ signupOp[s].pc = "idle"
     /\ nextAccountId <= MaxAccounts
     /\ sent' = {}
     /\ IF existingAccount
        THEN /\ resp' = Resp("signup", 400, "An account with this email already exists.")
             /\ UNCHANGED signupOp
        ELSE /\ resp' = NoResp
             /\ signupOp' = [signupOp EXCEPT ![s] = [pc |-> "insert", email |-> fullEmail]]
     /\ UNCHANGED << accountRows, nextAccountId, tokenSide, passwordSide, uploadSide,
                     codeSide, orderSide, authSide, now, admins >>

\* hashPassword, createAccount (which throws on an insert error, caught by
\* the handler of /api/auth), the two notices and the answer
SignupInsert(s, mailOk) ==
  LET me == signupOp[s]
      email == toLowerCase(me.email)
  IN /\ me.pc = "insert"
     /\ signupOp' = [signupOp EXCEPT ![s] = IdleSignupOp]
     /\ IF EmailIsUnique(email)
        THEN /\ accountRows' = accountRows \cup { [id |-> nextAccountId, email |-> email] }
             /\ nextAccountId' = nextAccountId + 1
             /\ sent' = IF mailOk
                        THEN { VerifyMail(email, VerificationToken(email)),
                               NoticeEmail(AdminEmail, "new-user") }
                        ELSE {}
             /\ resp' = NoticeOutcome(Resp("signup", 200, "Account created!"), mailOk)
        ELSE /\ resp' = Resp("signup", 500, "An error occurred.")
             /\ sent' = {}
             /\ UNCHANGED << accountRows, nextAccountId >>
     /\ UNCHANGED << tokenSide, passwordSide, uploadSide, codeSide, orderSide, authSide,
                     now, admins >>

InitSignupSide ==
  /\ accountRows = {}
  /\ nextAccountId = 1
  /\ signupOp = [s \in Sessions |-> IdleSignupOp]

\* the module state of every process at its start
InitProcSide ==
  /\ env = [accessToken |-> FALSE, refreshToken |-> TRUE, appCredentials |-> TRUE]
  /\ InitTokenSide
  /\ InitPasswordSide
  /\ InitSignupSide

(***************************************************************************)
(* The code lifecycle                                                      *)
(***************************************************************************)
\* the state after deployment: one admin row, empty tables, nothing in flight
InitCommon ==
  /\ now = 0
  /\ admins = {AdminEmail}
  /\ resp = NoResp
  /\ sent = {}
InitCodeSide ==
  /\ codes = {}
  /\ nextCodeId = 1
  /\ wins = [i \in 1..MaxCodeRows |-> 0]
  /\ redeem = [u \in Reqs |-> IdleRedeem]
  /\ adminOp = IdleAdminOp
InitOrderSide ==
  /\ orders = {}
  /\ nextOrderId = 1
  /\ approvalLinks = {}
  /\ payOp = [u \in Users |-> IdlePayOp]
  /\ apprOp = [s \in Sessions |-> IdleApprOp]
  /\ readyOp = IdleReadyOp
InitAuthSide ==
  /\ accounts = [e \in Emails |-> NoAccount]
  /\ authOp = [s \in Sessions |-> IdleAuthOp]
\* no upload in flight; every stored order was inserted by an upload that
\* stored its file
InitUploadSide ==
  /\ uploadOp = [s \in Sessions |-> IdleUploadOp]
  /\ cloud = [folders |-> { r.user_email : r \in orders },
              files |-> { r.user_email : r \in orders }]
  /\ created = { << r.id, r.user_email >> : r \in orders }
  /\ deployed = "retention"

InitCodes == InitCommon /\ InitProcSide /\ InitCodeSide /\ InitOrderSide /\ InitAuthSide /\ InitUploadSide

NextCodes ==
  \/ \E u \in Reqs, c \in CodeSpace \cup {BlankCode} : \E t \in RedeemTokens(u) : RedeemFind(u, t, c)
  \/ \E u \in Reqs, dbOk \in BOOLEAN, mailOk \in BOOLEAN : RedeemMark(u, dbOk, mailOk)
  \/ \E v \in {"admin", "endpoint"}, t \in CodeAdminTokens, c \in CodeSpace : CreateCodeGen(v, t, c)
  \/ \E l \in SharedLinks \cup {EmptyLink} : CreateCodeInsert(l)
  \/ \E t \in CodeAdminTokens : ClearAllFetch("admin", t, TRUE)
  \/ \E dbOk \in BOOLEAN : ClearAllDelete(dbOk, {})

SpecCodes == InitCodes /\ [][NextCodes]_vars

(***************************************************************************)
(* The order lifecycle                                                     *)
(***************************************************************************)
InitOrders == InitCommon /\ InitProcSide /\ InitCodeSide /\ InitOrderSide /\ InitAuthSide /\ InitUploadSide

NextOrders ==
  \/ \E u \in Users, uploadOk \in BOOLEAN, dbOk \in BOOLEAN :
        \E t \in OrderTokens(u) : Upload(u, t, "US", "555", uploadOk, dbOk)
  \/ \E u \in Users, v \in {"order", "endpoint"}, o \in 0..MaxOrders :
        \E t \in OrderTokens(u) : RequestPaymentRead(u, v, t, o)
  \/ \E u \in Users, mail \in {"ok", "error", "throw"} : RequestPaymentWrite(u, mail)
  \/ \E a \in BOOLEAN, o \in 0..MaxOrders : \E t \in ApproveTokens : ApproveRead("s1", "order", a, o, t)
  \/ \E mailOk \in BOOLEAN : ApproveWrite("s1", EmptyLink, mailOk)
  \/ \E t \in OrderAdminTokens, o \in 0..MaxOrders : SendReadyRead(t, o)
  \/ \E mail \in MailOutcomes, dbOk \in BOOLEAN : SendReadyWrite(mail, dbOk)

SpecOrders == InitOrders /\ [][NextOrders]_vars

(***************************************************************************)
(* Approval capability links: request-payment mints them, both GET approve *)
(* handlers consume them                                                   *)
(***************************************************************************)
InitApprove == InitCommon /\ InitProcSide /\ InitCodeSide /\ InitOrderSide /\ InitAuthSide /\ InitUploadSide

NextApprove ==
  \/ \E u \in Users, uploadOk \in BOOLEAN, dbOk \in BOOLEAN :
        \E t \in OrderTokens(u) : Upload(u, t, "US", "555", uploadOk, dbOk)
  \/ \E u \in Users, v \in {"order", "endpoint"}, o \in 0..MaxOrders :
        \E t \in OrderTokens(u) : RequestPaymentRead(u, v, t, o)
  \/ \E u \in Users, mail \in {"ok", "error", "throw"} : RequestPaymentWrite(u, mail)
  \/ \E v \in {"order", "endpoint"}, a \in BOOLEAN, o \in 0..MaxOrders :
        \E t \in ApproveTokens : ApproveRead("s1", v, a, o, t)
  \/ \E l \in {EmptyLink, <<"u", "dl=0">>}, mailOk \in BOOLEAN : ApproveWrite("s1", l, mailOk)

SpecApprove == InitApprove /\ [][NextApprove]_vars

(***************************************************************************)
(* Accounts and login                                                      *)
(***************************************************************************)
\* the emails that sign up and log in: an ordinary user and the admin
Logins == { "alice@x", AdminEmail }

InitAuth == InitCommon /\ InitProcSide /\ InitCodeSide /\ InitOrderSide /\ InitAuthSide /\ InitUploadSide

NextAuth ==
  \/ \E e \in Logins, dbOk \in BOOLEAN, mailOk \in BOOLEAN : Signup(e, GoodPassword, dbOk, mailOk)
  \/ \E e \in Logins, dbOk \in BOOLEAN : VerifyEmail(VerificationToken(e), dbOk)
  \/ \E t \in CodeAdminTokens, e \in Logins, mailOk \in BOOLEAN : ApproveUser(t, e, mailOk)
  \/ \E e \in Logins, p \in Passwords, c \in CodeSpace, dbOk \in BOOLEAN,
         mail \in MailOutcomes : Login(e, p, c, dbOk, mail)
  \/ \E e \in Logins, p \in Passwords : LegacyLogin(e, p)
  \/ \E e \in Logins, c \in CodeSpace : VerifyRead("s1", e, c)
  \/ VerifyExpire("s1")
  \/ VerifyClear("s1")
  \/ Tick

SpecAuth == InitAuth /\ [][NextAuth]_vars

(***************************************************************************)
(* Password reset requests                                                 *)
(***************************************************************************)
InitForgot == InitCommon /\ InitProcSide /\ InitCodeSide /\ InitOrderSide /\ InitAuthSide /\ InitUploadSide

NextForgot ==
  \/ \E e \in Emails, dbOk \in BOOLEAN, mailOk \in BOOLEAN : Signup(e, GoodPassword, dbOk, mailOk)
  \/ \E e \in Emails, dbOk \in BOOLEAN : VerifyEmail(VerificationToken(e), dbOk)
  \/ \E v \in {"auth", "endpoint"}, e \in Emails, dbOk \in BOOLEAN, mail \in {"ok", "error", "throw"} :
        Forgot(v, e, dbOk, mail)

SpecForgot == InitForgot /\ [][NextForgot]_vars

(***************************************************************************)
(* The admin surface, with one order and one account in the store          *)
(***************************************************************************)
\* the session tokens issued to the admin while listed and to a user while
\* not listed, a token with another signature and an outdated token
AdminTokens ==
  { SessionToken(AdminEmail, TRUE, 0), SessionToken("alice@x", FALSE, 0),
    Forged(SessionToken(AdminEmail, TRUE, 0)), Expired(SessionToken(AdminEmail, TRUE, 0)) }

InitAdmin ==
  /\ InitCommon /\ InitProcSide /\ InitCodeSide
  /\ orders = { [NoOrder EXCEPT !.id = 1, !.user_email = "alice@x", !.status = "pending"] }
  /\ nextOrderId = 2
  /\ approvalLinks = {}
  /\ payOp = [u \in Users |-> IdlePayOp]
  /\ apprOp = [s \in Sessions |-> IdleApprOp]
  /\ readyOp = IdleReadyOp
  /\ accounts = [e \in Emails |->
                   IF e = "alice@x"
                   THEN [NoAccount EXCEPT !.exists = TRUE,
                                          !.password = hashPassword(GoodPassword),
                                          !.email_verification_token = VerificationToken(e)]
                   ELSE NoAccount]
  /\ authOp = [s \in Sessions |-> IdleAuthOp]
  /\ InitUploadSide

NextAdmin ==
  \/ \E a \in AdminActions, t \in AdminTokens : AdminRequest(a, t)
  \/ CreateCodeInsert(<<"u", "dl=0">>)
  \/ \E dbOk \in BOOLEAN : ClearAllDelete(dbOk, {})
  \/ \E mail \in MailOutcomes, dbOk \in BOOLEAN : SendReadyWrite(mail, dbOk)
  \/ \E e \in {AdminEmail, "alice@x"} : AllowListChange(e)

SpecAdmin == InitAdmin /\ [][NextAdmin]_vars

(***************************************************************************)
(* Minting codes: create-code and the approval endpoint run concurrently,  *)
(* with two paid orders whose approval links are in the admin's mailbox    *)
(***************************************************************************)
InitMint ==
  /\ InitCommon /\ InitProcSide /\ InitCodeSide /\ InitAuthSide
  /\ orders = { [NoOrder EXCEPT !.id = 1, !.user_email = "alice@x", !.status = "paid",
                         !.payment_requested_at = 0],
                [NoOrder EXCEPT !.id = 2, !.user_email = "bob@x", !.status = "paid",
                         !.payment_requested_at = 0] }
  /\ nextOrderId = 3
  /\ approvalLinks = {1, 2}
  /\ payOp = [u \in Users |-> IdlePayOp]
  /\ apprOp = [s \in Sessions |-> IdleApprOp]
  /\ readyOp = IdleReadyOp
  /\ InitUploadSide

NextMint ==
  \/ \E v \in {"admin", "endpoint"}, t \in CodeAdminTokens, c \in CodeSpace : CreateCodeGen(v, t, c)
  \/ \E l \in SharedLinks \cup {EmptyLink} : CreateCodeInsert(l)
  \/ \E o \in 0..MaxOrders : \E t \in ApproveTokens : ApproveRead("s1", "endpoint", TRUE, o, t)
  \/ \E l \in {EmptyLink, <<"u", "dl=0">>}, mailOk \in BOOLEAN : ApproveWrite("s1", l, mailOk)
  \/ \E t \in CodeAdminTokens : ClearAllFetch("admin", t, TRUE)
  \/ \E dbOk \in BOOLEAN : ClearAllDelete(dbOk, {})

SpecMint == InitMint /\ [][NextMint]_vars

(***************************************************************************)
(* Clearing the table: create-code fills it, both clear-all handlers empty *)
(* it while the cloud storage deletes or keeps each folder                 *)
(***************************************************************************)
InitClear == InitCommon /\ InitProcSide /\ InitCodeSide /\ InitOrderSide /\ InitAuthSide /\ InitUploadSide

\* the tokens a clear-all request carries
ClearTokens == CodeAdminTokens \cup { NoToken, Expired(SessionToken(AdminEmail, TRUE, 0)) }

NextClear ==
  \/ \E v \in {"admin", "endpoint"}, c \in CodeSpace :
        CreateCodeGen(v, SessionToken(AdminEmail, TRUE, 0), c)
  \/ \E l \in SharedLinks \cup {EmptyLink} : CreateCodeInsert(l)
  \/ \E v \in {"admin", "endpoint"}, t \in ClearTokens, dbOk \in BOOLEAN : ClearAllFetch(v, t, dbOk)
  \/ \E dbOk \in BOOLEAN, failed \in SUBSET CodeSpace : ClearAllDelete(dbOk, failed)

SpecClear == InitClear /\ [][NextClear]_vars

(***************************************************************************)
(* Approval links used again: both GET approve handlers and                *)
(* send-ready-email, with two paid orders whose links are in the mailbox   *)
(***************************************************************************)
InitReapprove == InitMint

NextReapprove ==
  \/ \E v \in {"order", "endpoint"}, a \in BOOLEAN, o \in 0..MaxOrders :
        \E t \in ApproveTokens : ApproveRead("s1", v, a, o, t)
  \/ \E l \in {EmptyLink, <<"u", "dl=0">>}, mailOk \in BOOLEAN : ApproveWrite("s1", l, mailOk)
  \/ \E o \in 0..MaxOrders : SendReadyRead(SessionToken(AdminEmail, TRUE, 0), o)
  \/ \E mail \in MailOutcomes, dbOk \in BOOLEAN : SendReadyWrite(mail, dbOk)

SpecReapprove == InitReapprove /\ [][NextReapprove]_vars

(***************************************************************************)
(* Uploads and their retention cleanup, from two client sessions           *)
(***************************************************************************)
InitUpload ==
  /\ InitCommon /\ InitProcSide /\ InitCodeSide /\ InitOrderSide /\ InitAuthSide
  /\ uploadOp = [s \in Sessions |-> IdleUploadOp]
  /\ cloud = [folders |-> {}, files |-> {}]
  /\ created = {}
  /\ deployed \in {"retention", "basic"}

NextUpload ==
  \/ \E s \in Sessions, u \in Users,
         c \in {"", "US"}, p \in {"", "555"}, uploadOk \in BOOLEAN, dbOk \in BOOLEAN :
        \E t \in OrderTokens(u) : UploadInsert(s, t, c, p, uploadOk, dbOk)
  \/ \E s \in Sessions, dbOk \in BOOLEAN : CleanupRead(s, dbOk)
  \/ \E s \in Sessions, dbOk \in BOOLEAN : CleanupDelete(s, dbOk)

SpecUpload == InitUpload /\ [][NextUpload]_vars

(***************************************************************************)
(* Session tokens on every session-authenticated POST action, with one     *)
(* order and one account in the store                                      *)
(***************************************************************************)
\* the tokens a request carries: the session tokens of a user and of the
\* admin, no token, a malformed, a badly signed and an expired one
SessionTokens ==
  { SessionToken("alice@x", FALSE, 0), SessionToken(AdminEmail, TRUE, 0),
    NoToken, Malformed,
    Forged(SessionToken("alice@x", FALSE, 0)), Expired(SessionToken(AdminEmail, TRUE, 0)) }

\* a POST of client u carrying the token: /api/request, /api/order (upload,
\* request-payment), /api/admin/create-code, /api/admin/clear-all, and the
\* requests that /api/order/request-payment and POST /api/admin (every
\* action) answer at the token check
SessionRequest(u, token) ==
  \/ \E c \in CodeSpace : RedeemFind(u, token, c)
  \/ Upload(u, token, "US", "555", TRUE, TRUE)
  \/ RequestPaymentRead(u, "order", token, 0)
  \/ verifyToken(token) = NoToken /\ RequestPaymentRead(u, "endpoint", token, 0)
  \/ \E a \in AdminActions : verifyToken(token) = NoToken /\ AdminRequest(a, token)
  \/ CreateCodeGen("endpoint", token, CodeMin)
  \/ ClearAllFetch("endpoint", token, TRUE)

InitSession == InitAdmin

NextSession ==
  \/ \E t \in SessionTokens :
        (verifyToken(t) # NoToken => t.email \in {"alice@x", AdminEmail})
          /\ SessionRequest("alice@x", t)
  \/ RedeemMark("alice@x", TRUE, TRUE)
  \/ RequestPaymentWrite("alice@x", "ok")
  \/ CreateCodeInsert(<<"u", "dl=0">>)
  \/ ClearAllDelete(TRUE, {})

SpecSession == InitSession /\ [][NextSession]_vars

(***************************************************************************)
(* Claims about the code lifecycle (checked under SpecCodes)               *)
(***************************************************************************)
\* a step in which client u's request was answered before marking
AnsweredEarly(code) ==
  /\ resp'.op = "request" /\ resp'.code = code /\ redeem' = redeem
\* a step in which client u's request passed the lookup
PassedLookup(u, code) ==
  /\ redeem[u].pc = "idle" /\ redeem'[u].pc = "mark" /\ redeem'[u].code = code
\* the step in which client u's request marks and answers
MarkStep(u) == redeem[u].pc = "mark" /\ redeem'[u].pc = "idle"

Strip(link) == SelectSeq(link, LAMBDA x : x \notin {"dl=0", "dl=1"})
\* d is the direct-download form of the shared link: same address and other
\* parameters, dl=1 and no dl=0
IsDirectFormOf(d, shared) ==
  /\ d # EmptyLink
  /\ HasParam(d, "dl=1", 2) /\ ~HasParam(d, "dl=0", 2)
  /\ Strip(d) = Strip(shared)

\* C1: of two concurrent redemptions of one unused code exactly one succeeds;
\* two successes for the same code row never occur.
C1_NeverTwoSuccesses == \A i \in 1..MaxCodeRows : wins[i] <= 1

\* C2: once a code row is used, its used_by_email never changes while the row
\* exists, and every redemption of that code starting afterwards is answered
\* 'already used'.
C2_UsedIsTerminal ==
  [][ \A r \in codes : r.used_by_email # NoEmail =>
        /\ \A q \in codes' : q.id = r.id => q.used_by_email = r.used_by_email
        /\ AnsweredEarly(r.code) => resp'.msg = "This code has already been used."
        /\ \A u \in Reqs : ~PassedLookup(u, r.code) ]_vars

\* C10 (as stated): after create-code returned success with a code, the first
\* redemption of that code with a valid session succeeds with the direct
\* link and leaves the code marked used by that user; a later redemption is
\* answered 'already used'.
C10_CreatedCodeRedeems ==
  [][ /\ \A r \in codes :
           IF r.used_by_email = NoEmail
           THEN ~AnsweredEarly(r.code)
           ELSE /\ AnsweredEarly(r.code) => resp'.msg = "This code has already been used."
                /\ \A u \in Reqs : ~PassedLookup(u, r.code)
      /\ \A u \in Reqs : MarkStep(u) =>
           /\ resp'.status = 200
           /\ IsDirectFormOf(resp'.link, redeem[u].entry.dropboxLink)
           /\ \A q \in codes' : q.id = redeem[u].entry.id => q.used_by_email = u ]_vars

\* C10 (amended): after create-code returned success with a code and a
\* non-empty link, the first redemption of that code with a valid session
\* passes the lookup and, when its mark-used update succeeds, is answered
\* success with the direct-download form of the link and leaves the row, if
\* it still exists, marked used by that user (a failed update is answered
\* 500 and changes no row); a redemption looked up when the row is used is
\* answered 'already used'.
C10_CreatedLinkedCodeRedeems ==
  [][ /\ \A r \in codes :
           IF r.used_by_email = NoEmail
           THEN r.dropbox_link # EmptyLink => ~AnsweredEarly(r.code)
           ELSE /\ AnsweredEarly(r.code) => resp'.msg = "This code has already been used."
                /\ \A u \in Reqs : ~PassedLookup(u, r.code)
      /\ \A u \in Reqs : MarkStep(u) =>
           IF resp'.status = 200
           THEN /\ IsDirectFormOf(resp'.link, redeem[u].entry.dropboxLink)
                /\ \A q \in codes : q.id = redeem[u].entry.id =>
                     \E q2 \in codes' : q2.id = q.id /\ q2.code = q.code
                /\ \A q \in codes' : q.id = redeem[u].entry.id => q.used_by_email = u
           ELSE resp'.status = 500 /\ codes' = codes ]_vars

\* a created code has been redeemed with success and is marked used
C10_Witness ==
  /\ resp.op = "request" /\ resp.status = 200
  /\ \E r \in codes : r.code = resp.code /\ r.used_by_email # NoEmail
                      /\ IsDirectFormOf(resp.link, r.dropbox_link)

(***************************************************************************)
(* Claims about the order lifecycle (checked under SpecOrders)             *)
(***************************************************************************)
Rank(status) == CHOOSE i \in 1..Len(Statuses) : Statuses[i] = status

\* C3: for every order the status never moves to an earlier state of
\* pending, paid, approved, completed, whatever operation takes the step.
C3_StatusNeverMovesBack ==
  [][ \A r \in orders : \A q \in orders' :
        q.id = r.id => Rank(q.status) >= Rank(r.status) ]_vars

(***************************************************************************)
(* Claims about approval links (checked under SpecApprove)                 *)
(***************************************************************************)
\* the token verifies, was minted for the order of the query, and approves
LinkMatches(token, orderId) ==
  /\ token.present /\ token.sig /\ now < token.exp
  /\ token.orderId = orderId
  /\ token.action = "approve"

\* C9: a GET approve request goes on to its writes only with a token that
\* verifies, carries the orderId of the query and the action 'approve'; its
\* writes change no order but the one the token was minted for; a request
\* answered at its checks leaves every order and every code unchanged.
C9_ApproveNeedsMatchingLink ==
  [][ \A s \in Sessions :
        /\ (apprOp[s].pc = "idle" /\ apprOp'[s].pc = "write") =>
             LinkMatches(apprOp'[s].token, apprOp'[s].orderId)
        /\ (apprOp[s].pc = "write" /\ apprOp'[s].pc = "idle") =>
             /\ LinkMatches(apprOp[s].token, apprOp[s].orderId)
             /\ \A r \in orders : \A q \in orders' :
                  (q.id = r.id /\ q # r) => r.id = apprOp[s].token.orderId
        /\ (resp'.op = "approve" /\ apprOp' = apprOp) =>
             (orders' = orders /\ codes' = codes) ]_vars

\* an approval link has approved its order while another order stays unapproved
C9_Witness ==
  /\ resp.op = "approve" /\ resp.msg = "Approved!"
  /\ \E r \in orders : r.status = "approved"
  /\ \E r \in orders : r.status \in {"pending", "paid"}

(***************************************************************************)
(* Claims about accounts and login (checked under SpecAuth)                *)
(***************************************************************************)
\* a step of the login action for the email with its correct password
LoginWithPassword(email) ==
  \E p \in Passwords, c \in CodeSpace, dbOk \in BOOLEAN, mail \in MailOutcomes :
    /\ accounts[email].exists
    /\ comparePassword(p, accounts[email].password)
    /\ Login(email, p, c, dbOk, mail)

GateFlags == { "needsVerification", "pendingApproval" }

\* the step rejected the login with the flag, stored nothing and issued nothing
RejectedWith(flag) ==
  /\ resp'.status = 403 /\ resp'.flag = flag
  /\ resp'.token = NoToken
  /\ accounts' = accounts
  /\ sent' = {}

C5_LoginCodeRoundTrip ==
  [][ \A e \in Logins :
        /\ (LoginWithPassword(e) /\ resp'.status = 200) =>
             /\ resp'.flag = "requiresCode" /\ resp'.token = NoToken
             /\ accounts'[e].login_code # NoCode
             /\ accounts'[e].login_code_expiry = now + LOGIN_CODE_TTL
             /\ sent' \subseteq { LoginCodeEmail(e, accounts'[e].login_code) }
        /\ \A s \in Sessions, c \in CodeSpace : VerifyRead(s, e, c) =>
             IF accounts[e].exists /\ accounts[e].login_code = c
                /\ now <= accounts[e].login_code_expiry
             THEN authOp'[s].pc = "clear"
             ELSE /\ authOp'[s].pc # "clear"
                  /\ resp'.token = NoToken
                  /\ resp'.status = 401 \/ authOp'[s].pc = "expire"
        /\ \A s \in Sessions : (authOp[s].email = e /\ VerifyExpire(s)) =>
             resp'.status = 401 /\ resp'.token = NoToken
        /\ \A s \in Sessions : (authOp[s].email = e /\ VerifyClear(s)) =>
             /\ resp'.status = 200
             /\ resp'.token = SessionToken(e, isAdmin(e), now)
             /\ accounts'[e].login_code = NoCode ]_vars

\* a login code was verified some minutes after its issue and a token returned
C5_Witness ==
  /\ resp.op = "verify-login-code" /\ resp.status = 200
  /\ verifyToken(resp.token) # NoToken
  /\ now > 0
  /\ accounts[resp.token.email].login_code = NoCode

\* C6: a step issues a session token only when it is the successful end of
\* verify-login-code for the token's email; login itself issues none.
C6_TokenOnlyFromVerifyLoginCode ==
  [][ resp'.token # NoToken =>
        \E s \in Sessions : VerifyClear(s) /\ resp'.token.email = authOp[s].email ]_vars

(***************************************************************************)
(* Claims about password reset requests (checked under SpecForgot)         *)
(***************************************************************************)
\* C7: forgot answers 200 with the same message for a registered and for an
\* unregistered email, whatever the outcome of storing the reset token and
\* of sending the reset email.
C7_ForgotAlwaysSameAnswer ==
  [][ resp'.op = "forgot" => (resp'.status = 200 /\ resp'.msg = SuccessMessage) ]_vars

(***************************************************************************)
(* Claims about the admin surface (checked under SpecAdmin)                *)
(***************************************************************************)
Verifies(token) == token.present /\ token.sig /\ now < token.exp
\* the token verifies and its email is in the allow-list now
GatePasses(token) == Verifies(token) /\ token.email \in admins

\* C8: a request on the admin surface whose token does not verify, or whose
\* email is not in the allow-list at that moment, changes no table, starts
\* no operation and sends no email, whatever isAdmin claim the token
\* carries; it is answered 401, or 403 'Admin access required.' when the
\* token verifies.
C8_AdminGate ==
  [][ \A t \in AdminTokens : ~GatePasses(t) =>
        \A a \in AdminActions : (resp'.op \in {a, ""} /\ AdminRequest(a, t)) =>
          /\ UNCHANGED << codes, nextCodeId, orders, accounts, adminOp, readyOp >>
          /\ sent' = {}
          /\ IF Verifies(t)
             THEN resp'.status = 403 /\ resp'.msg = "Admin access required."
             ELSE resp'.status = 401 ]_vars

\* with the admin's email removed from the allow-list and another email
\* listed, a request with a verifying token was answered 403
C8_Witness ==
  /\ AdminEmail \notin admins /\ "alice@x" \in admins
  /\ resp.status = 403 /\ resp.msg = "Admin access required."
  /\ resp.op \in AdminActions

(***************************************************************************)
(* Claims about the checks and the email of a redemption (SpecCodes)       *)
(***************************************************************************)
\* the row of the table with that code is absent / used / without a link
CodeAbsent(code) == RowsWithCode(code) = {}
CodeUsed(code) == \E r \in RowsWithCode(code) : r.used_by_email # NoEmail
CodeUnlinked(code) == \E r \in RowsWithCode(code) : r.dropbox_link = EmptyLink

\* C11: a redemption with a valid session and a code checks in this order:
\* code absent -> 'not valid'; used_by_email set -> 'already used'; no link
\* -> 'not configured'; each of these answers is a 400 sent at the lookup,
\* leaves every code row unchanged and sends no download email.
C11_RedeemChecksInOrder ==
  [][ \A u \in Reqs, c \in CodeSpace : \A t \in RedeemTokens(u) :
        (resp'.op \in {"request", ""} /\ verifyToken(t) # NoToken /\ RedeemFind(u, t, c)) =>
          /\ CodeAbsent(c) => resp'.msg = "Code not valid."
          /\ (~CodeAbsent(c) /\ CodeUsed(c)) => resp'.msg = "This code has already been used."
          /\ (~CodeAbsent(c) /\ ~CodeUsed(c) /\ CodeUnlinked(c)) =>
               resp'.msg = "Download link not configured."
          /\ (CodeAbsent(c) \/ CodeUsed(c) \/ CodeUnlinked(c)) =>
               /\ resp'.status = 400
               /\ redeem' = redeem
               /\ codes' = codes /\ wins' = wins
               /\ sent' = {} ]_vars

\* each of the three failing answers has been given: here 'not configured'
\* for an unused row without a link
C11_Witness ==
  /\ resp.op = "request" /\ resp.msg = "Download link not configured."
  /\ \E r \in codes : r.code = resp.code /\ r.used_by_email = NoEmail
                      /\ r.dropbox_link = EmptyLink
  /\ sent = {}

\* C12: when the download-link email is not delivered during a redemption,
\* the redemption is answered 500 and not success.
C12_MailFailureFailsRedemption ==
  [][ \A u \in Reqs : (MarkStep(u) /\ sent' = {}) => resp'.status = 500 ]_vars

(***************************************************************************)
(* Claims about minted codes (checked under SpecMint)                      *)
(***************************************************************************)
NoDuplicateCodes == \A r \in codes : \A q \in codes : r.code = q.code => r.id = q.id

\* C13: the verification_codes table never holds two rows with the same
\* code, and every row inserted by create-code or by an approval carries a
\* code that no row of the table had at the moment of the insert, under
\* every interleaving of a create-code with an approval.
C13_CodesStayUnique ==
  /\ []NoDuplicateCodes
  /\ [][ \A r \in codes' : (\A q \in codes : q.id # r.id) => CodeAbsent(r.code) ]_vars

\* two concurrent creations drew the same code: the approval stored it, the
\* insert of create-code was refused
C13_Witness ==
  /\ resp.op = "create-code" /\ resp.status = 500 /\ resp.msg = "An error occurred."
  /\ \E o \in orders : o.status = "approved" /\ o.verification_code # 0
                       /\ Cardinality(RowsWithCode(o.verification_code)) = 1

(***************************************************************************)
(* Claims about clear-all (checked under SpecClear)                        *)
(***************************************************************************)
\* the step in which a clear-all deletes the rows, runs the folder loop and
\* answers
ClearStep == adminOp.pc = "delete" /\ adminOp'.pc = "idle"

\* C14: clear-all deletes every row of verification_codes and then tries to
\* delete the folder of each fetched row; whichever folders fail, the rows
\* stay deleted and the answer is success; the standalone endpoint reports
\* deletedFolders + failedFolders = the number of fetched rows (the admin
\* action reports the deleted count only).
C14_ClearAllBestEffort ==
  [][ \A failed \in SUBSET adminOp.fetched :
        (ClearStep /\ ClearAllDelete(TRUE, failed)) =>
          /\ resp'.status = 200
          /\ codes' = {}
          /\ resp'.deletedFolders = Cardinality(adminOp.fetched) - Cardinality(failed)
          /\ adminOp.variant = "endpoint" =>
               /\ resp'.failedFolders = Cardinality(failed)
               /\ resp'.deletedFolders + resp'.failedFolders = Cardinality(adminOp.fetched) ]_vars

\* the endpoint answered success although a folder was not deleted
C14_Witness ==
  /\ resp.op = "clear-all" /\ resp.status = 200
  /\ resp.failedFolders > 0 /\ resp.deletedFolders > 0
  /\ codes = {}

(***************************************************************************)
(* Claims about repeated approvals (checked under SpecReapprove)           *)
(***************************************************************************)
\* C15: a GET approve request with a valid link for an order whose status
\* is approved or completed is answered with the success page 'Already
\* Approved' and changes nothing: no order (status, code), no row of
\* verification_codes, no email, and the request does not go on to its writes.
C15_ReapproveIsNoOp ==
  [][ \A v \in {"order", "endpoint"}, o \in 1..MaxOrders :
        (/\ resp'.op \in {"approve", ""}
         /\ OrderById(o).status \in {"approved", "completed"}
         /\ ApproveRead("s1", v, TRUE, o, ApprovalToken(o, 0))) =>
          /\ resp'.status = 200 /\ resp'.msg = "Already Approved"
          /\ orders' = orders
          /\ codes' = codes /\ nextCodeId' = nextCodeId
          /\ sent' = {}
          /\ apprOp' = apprOp ]_vars

\* the link of a completed order was used again and answered 'Already
\* Approved'
C15_Witness ==
  /\ resp.op = "approve" /\ resp.msg = "Already Approved"
  /\ \E r \in orders : r.status = "completed"
  /\ \A r \in orders : r.status \in {"completed", "paid"}

(***************************************************************************)
(* Claims about the edges of the order lifecycle (checked under SpecOrders)*)
(***************************************************************************)
\* the status changes of the step: pairs << status before, status after >>
StatusChanges ==
  { << r.status, q.status >> :
      << r, q >> \in { x \in orders \X orders' : x[1].id = x[2].id /\ x[1].status # x[2].status } }

PayStep == \E u \in Users : payOp[u].pc = "send" /\ payOp'[u].pc = "idle"
ApproveStep == \E s \in Sessions : apprOp[s].pc = "write" /\ apprOp'[s].pc = "idle"
ReadyStep == readyOp.pc = "send" /\ readyOp'.pc = "idle"

\* C16: request-payment changes a status only from pending to paid, an
\* approval only from paid to approved, send-ready-email only from approved
\* to completed; no other step changes the status of an existing order.
C16_StatusEdges ==
  [][ /\ PayStep => StatusChanges \subseteq { << "pending", "paid" >> }
      /\ ApproveStep => StatusChanges \subseteq { << "paid", "approved" >> }
      /\ ReadyStep => StatusChanges \subseteq { << "approved", "completed" >> }
      /\ ~(PayStep \/ ApproveStep \/ ReadyStep) => StatusChanges = {} ]_vars

(***************************************************************************)
(* Claims about uploads and retention (checked under SpecUpload)           *)
(***************************************************************************)
\* the step in which the upload of session s ends its cleanup and answers
UploadCompletes(s) == uploadOp[s].pc \in {"cleanup", "delete"} /\ uploadOp'[s].pc = "idle"

\* ids of all orders ever created for the user, and of those stored after
\* the step
EverCreated(userEmail) == { x[1] : x \in { y \in created' : y[2] = userEmail } }
StoredAfter(userEmail) == { r.id : r \in { q \in orders' : q.user_email = userEmail } }

\* C17: when an upload completes and its cleanup ran without error, its
\* user has at most 3 orders in the store, they are the most recently
\* created ones of that user, and the order of this upload is among them.
C17_RetentionKeepsNewestThree ==
  [][ \A s \in Sessions :
        (UploadCompletes(s) /\ (CleanupRead(s, TRUE) \/ CleanupDelete(s, TRUE))) =>
          LET u == uploadOp[s].user
          IN /\ Cardinality(StoredAfter(u)) <= KeepCount
             /\ StoredAfter(u) = EverCreated(u) \ BeyondNewest(EverCreated(u), KeepCount)
             /\ uploadOp[s].orderId \in StoredAfter(u) ]_vars

\* C18: a failure inside the retention cleanup, of its read or of its
\* delete, does not change the outcome of the upload: the upload answers
\* 200 with the order it created, and the failing step removes no order, so
\* the created order stays stored.
C18_CleanupFailureIsHarmless ==
  [][ \A s \in Sessions :
        (UploadCompletes(s) /\ (CleanupRead(s, FALSE) \/ CleanupDelete(s, FALSE))) =>
          /\ resp'.status = 200 /\ resp'.msg = "Photo uploaded!"
          /\ resp'.order = uploadOp[s].orderId
          /\ orders' = orders
          /\ (uploadOp[s].orderId \in OrdersOf(uploadOp[s].user)) =>
               uploadOp[s].orderId \in StoredAfter(uploadOp[s].user) ]_vars

\* the fourth upload of a user answered success with its order although its
\* cleanup failed: all four orders are still stored
C18_Witness ==
  /\ resp.op = "upload" /\ resp.status = 200 /\ resp.order = 4
  /\ nextOrderId = 5
  /\ OrdersOf("alice@x") = {1, 2, 3, 4}
  /\ \A s \in Sessions : uploadOp[s].pc = "idle"

\* C19: an upload with a valid session whose country is missing, or whose
\* phone is missing where the handler in service requires it, is answered
\* 400 before any folder is created or file stored and creates no order,
\* whether or not the file could be stored.
C19_MissingMetadataRejected ==
  [][ \A s \in Sessions, u \in Users, c \in {"", "US"}, p \in {"", "555"},
         uploadOk \in BOOLEAN, dbOk \in BOOLEAN :
        (/\ resp'.op \in {"upload", ""}
         /\ (c = "" \/ (deployed = "retention" /\ p = ""))
         /\ UploadInsert(s, SessionToken(u, FALSE, 0), c, p, uploadOk, dbOk)) =>
          /\ resp'.status = 400
          /\ cloud' = cloud
          /\ orders' = orders /\ created' = created /\ nextOrderId' = nextOrderId
          /\ uploadOp' = uploadOp ]_vars

\* an upload without a phone number was rejected by the handler that
\* requires it, with nothing stored
C19_Witness ==
  /\ resp.op = "upload" /\ resp.status = 400
  /\ resp.msg = "Please enter your phone number."
  /\ deployed = "retention"
  /\ cloud.folders = {} /\ cloud.files = {} /\ orders = {}

(***************************************************************************)
(* Claims about rejected session tokens (checked under SpecSession)        *)
(***************************************************************************)
\* the tokens that do not verify: none, malformed, badly signed, expired
RejectedTokens ==
  { NoToken, Malformed,
    Forged(SessionToken("alice@x", FALSE, 0)), Expired(SessionToken(AdminEmail, TRUE, 0)) }

\* the step leaves every table, the cloud storage and every request in
\* flight as they were and sends no email
NothingChanged ==
  /\ << codeSide, orderSide, authSide, uploadSide, admins >>'
       = << codeSide, orderSide, authSide, uploadSide, admins >>
  /\ sent' = {}

\* C20 (as stated): every session-authenticated POST action answers a
\* missing, malformed, expired or badly signed token with the same 401
\* 'Session expired.' response and changes no state.
C20_UniformSessionExpired ==
  [][ \A t \in RejectedTokens :
        SessionRequest("alice@x", t) =>
          /\ resp'.status = 401 /\ resp'.msg = "Session expired."
          /\ NothingChanged ]_vars

\* C20 (amended): every session-authenticated POST action answers a
\* malformed, expired or badly signed token with the same 401 'Session
\* expired.' and a missing token with a 401 too, whose message is
\* 'Session expired.' on /api/order, /api/order/request-payment and
\* /api/admin and 'Authentication required.' on /api/request,
\* /api/admin/create-code and /api/admin/clear-all; none of these requests
\* changes any state.
C20_RejectedTokenIs401 ==
  [][ \A t \in RejectedTokens :
        /\ (\/ \E c \in CodeSpace : RedeemFind("alice@x", t, c)
            \/ CreateCodeGen("endpoint", t, CodeMin)
            \/ ClearAllFetch("endpoint", t, TRUE)) =>
             /\ resp'.status = 401
             /\ resp'.msg = IF t.present THEN "Session expired."
                            ELSE "Authentication required."
             /\ NothingChanged
        /\ (\/ Upload("alice@x", t, "US", "555", TRUE, TRUE)
            \/ \E v \in {"order", "endpoint"} : RequestPaymentRead("alice@x", v, t, 0)
            \/ \E a \in AdminActions : AdminRequest(a, t)) =>
             /\ resp'.status = 401 /\ resp'.msg = "Session expired."
             /\ NothingChanged ]_vars

\* a redemption with an expired token was answered 'Session expired.' while
\* an unused code was in the table
C20_Witness ==
  /\ resp.op = "request" /\ resp.status = 401 /\ resp.msg = "Session expired."
  /\ \E r \in codes : r.used_by_email = NoEmail /\ r.dropbox_link # EmptyLink

(***************************************************************************)
(* Claims about exceptions and email failures                              *)
(***************************************************************************)
\* the request ended by an exception no handler caught: the platform's 500,
\* without a body of the application
Unanswered == resp.status = 500 /\ resp.msg = ""

\* C21: an exception raised while a request on the auth, order or admin
\* surface is handled is caught at the handler boundary and answered with
\* the handler's 500; no request is left without a response of its handler.
C21_ExceptionsAnswered == ~Unanswered

(***************************************************************************)
(* The access-token cache under concurrent callers, in every configuration *)
(* of the Dropbox credentials                                              *)
(***************************************************************************)
InitToken ==
  /\ InitCommon /\ InitCodeSide /\ InitOrderSide /\ InitAuthSide /\ InitUploadSide
  /\ InitPasswordSide /\ InitSignupSide
  /\ env \in [accessToken : BOOLEAN, refreshToken : BOOLEAN, appCredentials : BOOLEAN]
  /\ InitTokenSide

NextToken ==
  \/ \E c \in Callers : GetAccessToken(c)
  \/ \E c \in Callers, outcome \in RefreshOutcomes : RefreshResponse(c, outcome)
  \/ \E d \in { REFRESH_AFTER \div 2, REFRESH_AFTER } : TokenAges(d)

SpecToken == InitToken /\ [][NextToken]_vars

\* the cache is empty, or holds the token and the expiry one completed
\* successful refresh stored
CachePairOk ==
  \/ cachedAccessToken = NoAccessToken /\ tokenExpiresAt = 0
  \/ << cachedAccessToken, tokenExpiresAt >> \in refreshed

\* C22 (as stated): under any interleaving of getAccessToken calls the cache
\* is empty or holds a token with its own expiry from one completed
\* successful refresh, and every caller receives a token.
C22_CacheConsistentTokenReturned ==
  /\ CachePairOk
  /\ \A c \in Callers : tokenOp[c].returned => tokenOp[c].token # NoAccessToken

\* C22 (amended): the cache is empty or holds a token with its own expiry
\* from one completed successful refresh; a caller receives the cached token,
\* the token of a completed refresh or the static token, and receives no
\* token only when no static token is configured.
C22_CacheConsistent ==
  /\ CachePairOk
  /\ \A c \in Callers :
        tokenOp[c].returned =>
          \/ tokenOp[c].token \in { p[1] : p \in refreshed }
          \/ tokenOp[c].token = StaticAccessToken /\ env.accessToken
          \/ tokenOp[c].token = NoAccessToken /\ ~env.accessToken

\* two callers refreshed concurrently and each returned the token of its own
\* refresh; the cache holds the pair of one of them
C22_Witness ==
  /\ tokenOp["c1"].returned /\ tokenOp["c2"].returned
  /\ tokenOp["c1"].token.kind = "refreshed" /\ tokenOp["c2"].token.kind = "refreshed"
  /\ tokenOp["c1"].token # tokenOp["c2"].token
  /\ Cardinality({ p[2] : p \in refreshed }) = 1
  /\ cachedAccessToken # NoAccessToken

\* refresh calls in flight
Fetching == { c \in Callers : tokenOp[c].pc = "fetch" }

\* C23 (as stated): at most one access-token refresh call is in flight at
\* any time.
C23_SingleFlight == Cardinality(Fetching) <= 1

\* C23 (amended): a getAccessToken call issues a refresh call exactly when
\* the refresh credentials are configured and the cache holds no unexpired
\* token, whether or not another refresh is in flight; with an unexpired
\* token in the cache it returns that token and issues no refresh call.
C23_RefreshWhenStale ==
  [][ \A c \in Callers :
        (tokenOp[c].pc = "idle" /\ tokenOp'[c] # tokenOp[c]) =>
          IF cachedAccessToken # NoAccessToken /\ now < tokenExpiresAt
          THEN /\ refreshCalls' = refreshCalls
               /\ tokenOp'[c].returned /\ tokenOp'[c].token = cachedAccessToken
          ELSE IF env.refreshToken /\ env.appCredentials
          THEN refreshCalls' = refreshCalls + 1 /\ tokenOp'[c].pc = "fetch"
          ELSE refreshCalls' = refreshCalls /\ tokenOp'[c].returned ]_vars

\* two refresh calls in flight at once
C23_Witness == Cardinality(Fetching) = 2

\* C24: a failure sending the verification email or the admin notification
\* does not fail signup (the account is created, the answer is a success),
\* and a failure sending the approval notice does not fail approve-user
\* (admin_approved is set, the answer is a success).
C24_NoticeFailureTolerated ==
  [][ /\ \A e \in Logins :
           (resp'.op = "signup" /\ ~accounts[e].exists
              /\ Signup(e, GoodPassword, TRUE, FALSE)) =>
             accounts'[e].exists /\ resp'.status = 200 /\ sent' = {}
      /\ \A e \in Logins, t \in CodeAdminTokens :
           (resp'.op = "approve-user" /\ AdminGate(t) = 0 /\ accounts[e].exists
              /\ ApproveUser(t, e, FALSE)) =>
             accounts'[e].admin_approved /\ resp'.status = 200 /\ sent' = {} ]_vars

\* an account that signed up was approved with a success while the notice
\* to the user was not delivered
C24_Witness ==
  /\ resp.op = "approve-user" /\ resp.status = 200 /\ sent = {}
  /\ \E e \in Logins : accounts[e].exists /\ accounts[e].admin_approved

\* C25: when sending the login-code email fails, whether the send throws or
\* returns an error, the login fails with a 500 and does not return
\* requiresCode.
C25_MailFailureFailsLogin ==
  [][ \A e \in Logins, p \in Passwords, c \in CodeSpace, mail \in { "error", "throw" } :
        (resp'.op = "login" /\ sent' = {} /\ accounts'[e].login_code = c
           /\ accounts' # accounts /\ Login(e, p, c, TRUE, mail)) =>
          resp'.status = 500 /\ resp'.flag # "requiresCode" ]_vars

(***************************************************************************)
(* validatePassword on passwords of every shape                            *)
(***************************************************************************)
\* the passwords validated: up to MaxPrefix characters of the alphabet (a
\* character of each class of the rules, a symbol outside the punctuation
\* set, a blank), followed by up to MaxPad further characters
MaxPrefix == 4
MaxPad == 8
Alphabet == { "A", "z", "9", "?", "~", " " }
Pad(k) == [i \in 1..k |-> "~"]
PasswordInputs ==
  { p \o Pad(k) : p \in UNION { [1..n -> Alphabet] : n \in 0..MaxPrefix }, k \in 0..MaxPad }

InitPassword ==
  /\ InitCommon /\ InitCodeSide /\ InitOrderSide /\ InitAuthSide /\ InitUploadSide
  /\ env = [accessToken |-> FALSE, refreshToken |-> TRUE, appCredentials |-> TRUE]
  /\ InitTokenSide /\ InitSignupSide
  /\ candidate \in PasswordInputs
  /\ validation = NotValidated

NextPassword == ValidatePassword

SpecPassword == InitPassword /\ [][NextPassword]_vars

\* the five rules in their order, and their messages
RuleHolds(i, pw) ==
  CASE i = 1 -> Len(pw) >= 8
    [] i = 2 -> \E k \in 1..Len(pw) : pw[k] \in UpperCase
    [] i = 3 -> \E k \in 1..Len(pw) : pw[k] \in LowerCase
    [] i = 4 -> \E k \in 1..Len(pw) : pw[k] \in Digits
    [] i = 5 -> \E k \in 1..Len(pw) : pw[k] \in Symbols
RuleMessage ==
  << "Password must be at least 8 characters long.",
     "Password must contain at least 1 uppercase letter.",
     "Password must contain at least 1 lowercase letter.",
     "Password must contain at least 1 number.",
     "Password must contain at least 1 special character." >>

\* C26: validatePassword returns valid exactly when the password has length
\* at least 8 and contains an uppercase letter, a lowercase letter, a digit
\* and a symbol of the punctuation set; otherwise it returns the message of
\* the first failing rule in the order length, uppercase, lowercase, digit,
\* symbol.
C26_ValidatePassword ==
  validation # NotValidated =>
    LET failing == { i \in 1..5 : ~RuleHolds(i, candidate) }
    IN /\ validation.valid <=> failing = {}
       /\ failing # {} =>
            validation.message = RuleMessage[CHOOSE i \in failing : \A j \in failing : i <= j]

\* a password of eight characters with every class was accepted
C26_Witness ==
  /\ validation = Valid
  /\ Len(candidate) = 8
  /\ \A i \in 1..5 : RuleHolds(i, candidate)

(***************************************************************************)
(* Concurrent signups                                                      *)
(***************************************************************************)
InitSignup ==
  /\ InitCommon /\ InitProcSide /\ InitCodeSide /\ InitOrderSide /\ InitAuthSide
  /\ InitUploadSide

NextSignup ==
  \/ \E s \in Sessions, raw \in RawEmails, dbOk \in BOOLEAN : SignupFind(s, raw, dbOk)
  \/ \E s \in Sessions, mailOk \in BOOLEAN : SignupInsert(s, mailOk)

SpecSignup == InitSignup /\ [][NextSignup]_vars

OneAccountPerEmail ==
  \A r1 \in accountRows, r2 \in accountRows :
     toLowerCase(r1.email) = toLowerCase(r2.email) => r1 = r2

\* C27: in every reachable state at most one account exists per case-folded
\* email; a signup whose email already has an account, also one that found
\* none when it looked, is rejected and creates nothing.
C27_OneAccountPerEmail ==
  /\ []OneAccountPerEmail
  /\ [][ \A s \in Sessions :
           /\ (signupOp[s].pc = "insert" /\ signupOp'[s].pc = "idle"
                 /\ \E r \in accountRows : r.email = signupOp[s].email) =>
                accountRows' = accountRows /\ resp'.status = 500
           /\ (signupOp[s].pc = "idle" /\ signupOp' = signupOp /\ resp'.op = "signup") =>
                accountRows' = accountRows /\ resp'.status = 400 ]_vars

\* two signups for the same email, written in different case, both found no
\* account; the first created it and the second was rejected
C27_Witness ==
  /\ resp.op = "signup" /\ resp.status = 500
  /\ Cardinality(accountRows) = 1
  /\ \A s \in Sessions : signupOp[s].pc = "idle"

(***************************************************************************)
(* Capability tokens and session tokens presented to each other's checks,  *)
(* with a linked code in the table, a paid order whose approval link is in *)
(* the admin's mailbox and a pending order                                 *)
(***************************************************************************)
InitCapability ==
  /\ InitCommon /\ InitProcSide /\ InitAuthSide
  /\ codes = { [id |-> 1, code |-> CodeMin, dropbox_link |-> << "u", "dl=0" >>,
                used_by_email |-> NoEmail] }
  /\ nextCodeId = 2
  /\ wins = [i \in 1..MaxCodeRows |-> 0]
  /\ redeem = [u \in Reqs |-> IdleRedeem]
  /\ adminOp = IdleAdminOp
  /\ orders = { [NoOrder EXCEPT !.id = 1, !.user_email = "alice@x", !.status = "paid",
                         !.payment_requested_at = 0],
                [NoOrder EXCEPT !.id = 2, !.user_email = "bob@x", !.status = "pending"] }
  /\ nextOrderId = 3
  /\ approvalLinks = {1}
  /\ payOp = [u \in Users |-> IdlePayOp]
  /\ apprOp = [s \in Sessions |-> IdleApprOp]
  /\ readyOp = IdleReadyOp
  /\ InitUploadSide

\* successful redemptions of the code in a behaviour
MaxWins == 2

\* the tokens a client presents: its session token, the admin's, and the
\* capability tokens of the approval links
PresentedTokens(u) ==
  { SessionToken(u, FALSE, 0), SessionToken(AdminEmail, TRUE, 0) }
    \cup { ApprovalToken(o, 0) : o \in approvalLinks }

NextCapability ==
  \/ \E u \in Users : \E t \in PresentedTokens(u) :
        wins[1] < MaxWins /\ RedeemFind(u, t, CodeMin)
  \/ \E u \in Users, mailOk \in BOOLEAN : RedeemMark(u, TRUE, mailOk)
  \/ \E u \in Users : \E t \in PresentedTokens(u) : Upload(u, t, "US", "555", TRUE, TRUE)
  \/ \E u \in Users, o \in 0..MaxOrders :
        \E t \in PresentedTokens(u) : RequestPaymentRead(u, "order", t, o)
  \/ \E u \in Users : RequestPaymentWrite(u, "ok")
  \/ \E a \in ReadActions, u \in Users : \E t \in PresentedTokens(u) : AdminRead(a, t, TRUE)
  \/ \E o \in 1..MaxOrders, u \in Users :
        \E t \in PresentedTokens(u) : ApproveRead("s1", "order", TRUE, o, t)
  \/ \E mailOk \in BOOLEAN : ApproveWrite("s1", EmptyLink, mailOk)

SpecCapability == InitCapability /\ [][NextCapability]_vars

\* C28: a capability token is never treated as an authenticated session (a
\* redemption past the token check acts for the email of a session), and a
\* session token never passes the approve check.
C28_TokensNotInterchangeable ==
  /\ \A u \in Reqs : redeem[u].pc = "mark" => redeem[u].email # NoEmail
  /\ \A s \in Sessions : apprOp[s].pc = "write" => apprOp[s].token.action = "approve"

(***************************************************************************)
(* verify-login-code from two client sessions, with the login codes of two *)
(* accounts stored by their logins                                         *)
(***************************************************************************)
InitVerify ==
  /\ InitCommon /\ InitProcSide /\ InitCodeSide /\ InitOrderSide /\ InitUploadSide
  /\ accounts = [e \in Emails |->
                   IF e \in Logins
                   THEN [NoAccount EXCEPT !.exists = TRUE,
                                          !.password = hashPassword(GoodPassword),
                                          !.email_verified = TRUE,
                                          !.admin_approved = TRUE,
                                          !.login_code = CodeMin,
                                          !.login_code_expiry = LOGIN_CODE_TTL]
                   ELSE NoAccount]
  /\ authOp = [s \in Sessions |-> IdleAuthOp]

NextVerify ==
  \/ \E s \in Sessions, e \in Logins, c \in CodeSpace : VerifyRead(s, e, c)
  \/ \E s \in Sessions : VerifyExpire(s)
  \/ \E s \in Sessions : VerifyClear(s)
  \/ Tick

SpecVerify == InitVerify /\ [][NextVerify]_vars

\* C29: a stored login code yields at most one session token: a
\* verify-login-code request succeeds only while the code it presented is
\* still stored, so of two requests presenting the same code at most one
\* succeeds.
C29_OneTokenPerCode ==
  [][ \A s \in Sessions :
        (authOp[s].pc = "clear" /\ authOp'[s].pc = "idle" /\ resp'.status = 200) =>
          accounts[authOp[s].email].login_code # NoCode ]_vars

\* C30: request-payment sets an order to paid only in the step that sent the
\* admin the email with the approval link of that order; when the send
\* fails the request is answered with an error and no order changes.
C30_PaidOnlyAfterEmail ==
  [][ \A u \in Users :
        (payOp[u].pc = "send" /\ payOp'[u].pc = "idle") =>
          /\ orders' # orders =>
               ApprovalEmail(payOp[u].orderId, ApprovalToken(payOp[u].orderId, now))
                 \in sent'
          /\ sent' = {} => resp'.status = 500 /\ orders' = orders ]_vars

(***************************************************************************)
(* The admin's order actions: update-pickup and send-ready-email on an     *)
(* approved order and on freshly uploaded ones, while the clock advances   *)
(***************************************************************************)
InitPickup ==
  /\ InitCommon /\ InitProcSide /\ InitCodeSide /\ InitAuthSide
  /\ orders = { [NoOrder EXCEPT !.id = 1, !.user_email = "alice@x", !.status = "approved",
                                !.payment_requested_at = 0, !.approved_at = 0] }
  /\ nextOrderId = 2
  /\ approvalLinks = {1}
  /\ payOp = [u \in Users |-> IdlePayOp]
  /\ apprOp = [s \in Sessions |-> IdleApprOp]
  /\ readyOp = IdleReadyOp
  /\ InitUploadSide

NextPickup ==
  \/ \E uploadOk \in BOOLEAN, dbOk \in BOOLEAN :
        Upload("bob@x", SessionToken("bob@x", FALSE, 0), "US", "555", uploadOk, dbOk)
  \/ \E t \in OrderAdminTokens, o \in 0..MaxOrders, i \in {"", "desk", "gate"} :
        UpdatePickup(t, o, i)
  \/ \E t \in OrderAdminTokens, o \in 0..MaxOrders : SendReadyRead(t, o)
  \/ \E mail \in MailOutcomes, dbOk \in BOOLEAN : SendReadyWrite(mail, dbOk)
  \/ Tick

SpecPickup == InitPickup /\ [][NextPickup]_vars

\* the orders that this step turned to completed or whose completed_at it wrote
NewlyCompleted ==
  { r \in orders' : /\ r.status = "completed" \/ r.completed_at # NoTime
                    /\ \A q \in orders : q.id = r.id =>
                          q.status # r.status \/ q.completed_at # r.completed_at }

\* C31: an order becomes completed, with completed_at set to the time of the
\* step, only in the step of send-ready-email that delivered the
\* ready-for-pickup email to the order's user; a send-ready-email for an
\* order that does not exist is answered 404, one whose send fails is
\* answered 500, and both leave every order unchanged.
C31_CompletedOnlyAfterReadyEmail ==
  [][ /\ \A r \in NewlyCompleted :
            /\ ReadyStep
            /\ r.id = readyOp.orderId
            /\ r.status = "completed" /\ r.completed_at = now
            /\ sent' = { ReadyEmail(r.user_email, readyOp.instructions) }
            /\ resp' = Resp("send-ready-email", 200, "Ready for pickup email sent!")
      /\ \A o \in 1..MaxOrders :
            ( /\ OrderById(o) = NoOrder
              /\ SendReadyRead(SessionToken(AdminEmail, TRUE, 0), o) )
            => resp'.status = 404 /\ orders' = orders
      /\ (ReadyStep /\ sent' = {}) => (resp'.status = 500 /\ orders' = orders) ]_vars

\* an order completed at a later time than its approval, by the step that
\* delivered the email
C31_Witness ==
  /\ resp = Resp("send-ready-email", 200, "Ready for pickup email sent!")
  /\ \E r \in orders :
        /\ r.status = "completed" /\ r.completed_at = now /\ now > r.approved_at
        /\ sent = { ReadyEmail(r.user_email, r.pickup_instructions) }

(***************************************************************************)
(* Password reset: forgot and reset from two client sessions, on an        *)
(* account whose reset link is in the user's mailbox                       *)
(***************************************************************************)
\* the passwords a reset request carries: two that pass validatePassword,
\* one that does not, and a missing one
ResetPasswords == { "N3w-pass!", "Wr0ng-pw!", "short", "" }
\* the tokens a reset request carries: a link that was mailed, a missing one
\* and one that was never issued
ResetTokens == { ResetToken("alice@x"), NoLink, ResetToken("nobody@x") }

InitReset ==
  /\ InitCommon /\ InitProcSide /\ InitCodeSide /\ InitOrderSide /\ InitUploadSide
  /\ accounts = [e \in Emails |->
                   IF e = "alice@x"
                   THEN [NoAccount EXCEPT !.exists = TRUE,
                                          !.password = hashPassword(GoodPassword),
                                          !.email_verified = TRUE,
                                          !.admin_approved = TRUE,
                                          !.reset_token = ResetToken(e),
                                          !.token_expiry = TickStep]
                   ELSE NoAccount]
  /\ authOp = [s \in Sessions |-> IdleAuthOp]

NextReset ==
  \/ \E s \in Sessions, t \in ResetTokens, p \in ResetPasswords : ResetFind(s, t, p)
  \/ \E s \in Sessions, dbOk \in BOOLEAN : ResetUpdate(s, dbOk)
  \/ Tick

SpecReset == InitReset /\ [][NextReset]_vars

\* the reset of session s answers with success in this step
ResetSucceeds(s) ==
  authOp[s].pc = "reset" /\ authOp'[s].pc = "idle" /\ resp'.status = 200

\* C32: a reset token changes the password at most once: a reset succeeds
\* only while the account still stores the token it presented, and it clears
\* the token; a reset with a token no account stores is answered 'Invalid
\* reset link.', and a reset with a token past its expiry is answered with an
\* error; neither changes an account.
C32_ResetTokenOneShot ==
  [][ /\ \A s \in Sessions :
            ResetSucceeds(s) =>
              /\ accounts[authOp[s].email].reset_token = authOp[s].token
              /\ accounts'[authOp[s].email].reset_token = NoLink
      /\ \A s \in Sessions, t \in ResetTokens \ {NoLink}, p \in {"N3w-pass!", "Wr0ng-pw!"} :
            ResetFind(s, t, p) =>
              /\ findAccountByResetToken(t) = {} =>
                    resp' = Resp("reset", 400, "Invalid reset link.")
              /\ (\E e \in findAccountByResetToken(t) : ResetExpired(accounts[e])) =>
                    resp'.status = 400 /\ authOp' = authOp
              /\ accounts' = accounts ]_vars

\* C33 as stated: once an account is verified, a verify-email with its token
\* is answered 400 'Invalid verification link.'
C33_VerificationTokenOneShot ==
  [][ \A e \in Logins, dbOk \in BOOLEAN :
        ( /\ accounts[e].exists /\ accounts[e].email_verified
          /\ VerifyEmail(VerificationToken(e), dbOk) )
        => resp' = Resp("verify-email", 400, "Invalid verification link.") ]_vars

\* C33 as amended: the verify-email that verifies an account clears its token,
\* and from then on every verify-email with that token is answered 400
\* 'Invalid verification link.' and changes nothing; an account that
\* approve-user verified keeps its token, and a verify-email with it is
\* answered with success and changes nothing.
C33_ConsumedTokenIsInvalid ==
  [][ \A e \in Logins, dbOk \in BOOLEAN :
        LET account == accounts[e]
            stored == account.exists /\ account.email_verification_token = VerificationToken(e)
        IN /\ (account.exists /\ account.email_verification_token = NoLink)
                => accounts'[e].email_verification_token = NoLink
           /\ VerifyEmail(VerificationToken(e), dbOk) =>
                IF ~stored
                THEN /\ resp' = Resp("verify-email", 400, "Invalid verification link.")
                     /\ accounts' = accounts
                ELSE IF account.email_verified
                THEN resp'.status = 200 /\ accounts' = accounts
                ELSE resp'.status = 200 =>
                       /\ accounts'[e].email_verified
                       /\ accounts'[e].email_verification_token = NoLink ]_vars

\* every account was verified by its link, and a verify-email with a consumed
\* token has just been refused
C33_Witness ==
  /\ \A e \in Logins : /\ accounts[e].exists /\ accounts[e].email_verified
                       /\ accounts[e].email_verification_token = NoLink
  /\ resp = Resp("verify-email", 400, "Invalid verification link.")

(***************************************************************************)
(* The approval link of one paid order opened from two client sessions     *)
(* (a double click, a mail scanner and the admin), both GET approve        *)
(* handlers                                                                *)
(***************************************************************************)
InitRace ==
  /\ InitCommon /\ InitProcSide /\ InitCodeSide /\ InitAuthSide
  /\ orders = { [NoOrder EXCEPT !.id = 1, !.user_email = "alice@x", !.status = "paid",
                                !.payment_requested_at = 0] }
  /\ nextOrderId = 2
  /\ approvalLinks = {1}
  /\ payOp = [u \in Users |-> IdlePayOp]
  /\ apprOp = [s \in Sessions |-> IdleApprOp]
  /\ readyOp = IdleReadyOp
  /\ InitUploadSide

NextRace ==
  \/ \E s \in Sessions, v \in {"order", "endpoint"}, a \in BOOLEAN, o \in 0..MaxOrders :
        \E t \in ApproveTokens : ApproveRead(s, v, a, o, t)
  \/ \E s \in Sessions, l \in {EmptyLink, <<"u", "dl=0">>}, mailOk \in BOOLEAN :
        ApproveWrite(s, l, mailOk)
  \/ Tick

SpecRace == InitRace /\ [][NextRace]_vars

\* C34: at most one code is minted and at most one approval email is sent for
\* an order: an approve-link invocation inserts a code or sends the user an
\* email only for an order that no earlier invocation has approved.
C34_ApproveOncePerOrder ==
  [][ \A s \in Sessions :
        ( /\ apprOp[s].pc = "write" /\ apprOp'[s].pc = "idle"
          /\ codes' # codes \/ sent' # {} )
        => ~AlreadyApproved(OrderById(apprOp[s].orderId)) ]_vars

(***************************************************************************)
(* request-payment of two users on their own and on each other's orders    *)
(***************************************************************************)
InitPay == InitCommon /\ InitProcSide /\ InitCodeSide /\ InitOrderSide /\ InitAuthSide /\ InitUploadSide

NextPay ==
  \/ \E u \in Users, uploadOk \in BOOLEAN, dbOk \in BOOLEAN :
        \E t \in OrderTokens(u) : Upload(u, t, "US", "555", uploadOk, dbOk)
  \/ \E u \in Users, v \in {"order", "endpoint"}, o \in 0..MaxOrders :
        \E t \in OrderTokens(u) : RequestPaymentRead(u, v, t, o)
  \/ \E u \in Users, mail \in MailOutcomes : RequestPaymentWrite(u, mail)
  \/ Tick

SpecPay == InitPay /\ [][NextPay]_vars

\* C35: request-payment reads and changes only orders of the user its session
\* token names: it goes on to its email and update only with an order of that
\* user, its update changes no other row, and given the orderId of another
\* user's order it answers 404 'Order not found.' and changes nothing.
C35_RequestPaymentOwnOrdersOnly ==
  [][ \A u \in Users :
        /\ (payOp[u].pc = "idle" /\ payOp'[u].pc = "send") =>
              OrderById(payOp'[u].orderId).user_email = u
        /\ (payOp[u].pc = "send" /\ payOp'[u].pc = "idle") =>
              \A r \in orders : \A q \in orders' :
                 (q.id = r.id /\ q # r) => (r.user_email = u /\ r.id = payOp[u].orderId)
        /\ \A v \in {"order", "endpoint"}, o \in 1..MaxOrders :
              ( /\ resp'.op \in {"request-payment", ""}
                /\ OrderById(o) # NoOrder /\ OrderById(o).user_email # u
                /\ RequestPaymentRead(u, v, SessionToken(u, FALSE, 0), o) )
              => /\ resp' = Resp("request-payment", 404, "Order not found.")
                 /\ orders' = orders /\ payOp' = payOp /\ sent' = {} ]_vars

\* both users have a pending order, so the 404 just sent answers a request
\* that named the other user's order
C35_Witness ==
  /\ resp = Resp("request-payment", 404, "Order not found.")
  /\ \A u \in Users : \E r \in orders : r.user_email = u /\ r.status = "pending"
  /\ \A o \in 1..MaxOrders : OrderById(o) # NoOrder

(***************************************************************************)
(* The whole life of one account: signup, verify-email, approve-user,      *)
(* login with its code, forgot and reset                                   *)
(***************************************************************************)
InitFlags == InitCommon /\ InitProcSide /\ InitCodeSide /\ InitOrderSide /\ InitAuthSide /\ InitUploadSide

NextFlags ==
  \/ \E dbOk \in BOOLEAN, mailOk \in BOOLEAN : Signup("alice@x", GoodPassword, dbOk, mailOk)
  \/ \E dbOk \in BOOLEAN : VerifyEmail(VerificationToken("alice@x"), dbOk)
  \/ \E t \in CodeAdminTokens, mailOk \in BOOLEAN : ApproveUser(t, "alice@x", mailOk)
  \/ \E p \in Passwords \cup {"N3w-pass!"}, dbOk \in BOOLEAN, mail \in MailOutcomes :
        Login("alice@x", p, CodeMin, dbOk, mail)
  \/ \E c \in CodeSpace : VerifyRead("s1", "alice@x", c)
  \/ VerifyExpire("s1")
  \/ VerifyClear("s1")
  \/ \E v \in {"auth", "endpoint"}, dbOk \in BOOLEAN, mail \in MailOutcomes :
        Forgot(v, "alice@x", dbOk, mail)
  \/ \E t \in ResetTokens, p \in ResetPasswords : ResetFind("s1", t, p)
  \/ \E dbOk \in BOOLEAN : ResetUpdate("s1", dbOk)
  \/ Tick

SpecFlags == InitFlags /\ [][NextFlags]_vars

\* C36: while an account exists, its email_verified and admin_approved flags
\* never go from true to false.
C36_FlagsNeverCleared ==
  [][ \A e \in Emails :
        (accounts[e].exists /\ accounts'[e].exists) =>
          /\ accounts[e].email_verified => accounts'[e].email_verified
          /\ accounts[e].admin_approved => accounts'[e].admin_approved ]_vars

\* a verified and approved account has logged in and has then reset its
\* password
C36_Witness ==
  /\ resp = Resp("reset", 200, "Password reset successfully!")
  /\ accounts["alice@x"].exists
  /\ accounts["alice@x"].email_verified /\ accounts["alice@x"].admin_approved
  /\ accounts["alice@x"].password = hashPassword("N3w-pass!")

\* C37: a login replaces the stored login code and its expiry; a
\* verify-login-code succeeds only with the code stored at that moment (the
\* most recently issued one); a verify-login-code with another code than the
\* stored, unexpired one is refused and leaves code and expiry unchanged.
C37_OnlyNewestLoginCodePasses ==
  [][ /\ \A e \in Logins :
            ( /\ resp'.op = "login" /\ resp'.flag = "requiresCode"
              /\ accounts' # accounts /\ accounts'[e] # accounts[e] )
            => /\ accounts'[e].login_code # NoCode
               /\ accounts'[e].login_code_expiry = now + LOGIN_CODE_TTL
               /\ sent' \subseteq { LoginCodeEmail(e, accounts'[e].login_code) }
      /\ \A s \in Sessions :
            (authOp[s].pc = "clear" /\ authOp'[s].pc = "idle" /\ resp'.status = 200) =>
               accounts[authOp[s].email].login_code = authOp[s].code
      /\ \A s \in Sessions, e \in Logins, c \in CodeSpace :
            ( /\ resp'.op = "verify-login-code"
              /\ accounts[e].exists /\ accounts[e].login_code \notin {NoCode, c}
              /\ ~LoginCodeExpired(accounts[e])
              /\ VerifyRead(s, e, c) )
            => /\ resp' = Resp("verify-login-code", 401, "Invalid verification code.")
               /\ accounts' = accounts /\ authOp' = authOp ]_vars

\* C38: update-pickup changes nothing but the pickup_instructions of the order
\* it addresses: the status, the timestamps, the verification code and the
\* owner of that order, every other order, and every code stay as they were.
C38_UpdatePickupFrame ==
  [][ \A t \in OrderAdminTokens, o \in 0..MaxOrders, i \in {"", "desk", "gate"} :
        (resp'.op = "update-pickup" /\ UpdatePickup(t, o, i)) =>
          /\ { r.id : r \in orders' } = { r.id : r \in orders }
          /\ \A r \in orders : \A q \in orders' :
                q.id = r.id =>
                  /\ r.id # o => q = r
                  /\ q.status = r.status /\ q.verification_code = r.verification_code
                  /\ q.user_email = r.user_email
                  /\ q.payment_requested_at = r.payment_requested_at
                  /\ q.approved_at = r.approved_at /\ q.completed_at = r.completed_at
          /\ codes' = codes /\ nextOrderId' = nextOrderId /\ readyOp' = readyOp ]_vars

\* the instructions of a completed order were rewritten after its completion
\* while another order has none
C38_Witness ==
  /\ resp = Resp("update-pickup", 200, "Instructions updated!")
  /\ \E r \in orders : /\ r.status = "completed" /\ r.completed_at # NoTime
                       /\ r.completed_at < now
                       /\ r.pickup_instructions = "gate"
  /\ \E r \in orders : r.status = "pending" /\ r.pickup_instructions = ""

\* C39: with an unexpired token in the cache a getAccessToken call issues no
\* refresh call; a refresh that fails (a non-OK response or an exception)
\* leaves cachedAccessToken and tokenExpiresAt as they were and returns the
\* static fallback token, the value of DROPBOX_ACCESS_TOKEN.
C39_NoRefreshWhileFreshFailureKeepsCache ==
  [][ \A c \in Callers :
        /\ ( /\ tokenOp[c].pc = "idle" /\ tokenOp'[c] # tokenOp[c]
             /\ cachedAccessToken # NoAccessToken /\ now < tokenExpiresAt )
           => /\ refreshCalls' = refreshCalls
              /\ tokenOp'[c].pc = "idle"
        /\ \A outcome \in { "notOk", "throw" } :
              RefreshResponse(c, outcome) =>
                /\ cachedAccessToken' = cachedAccessToken
                /\ tokenExpiresAt' = tokenExpiresAt
                /\ tokenOp'[c].returned
                /\ tokenOp'[c].token =
                     IF env.accessToken THEN StaticAccessToken ELSE NoAccessToken ]_vars

\* with refresh credentials and a static token configured, a caller got the
\* static token from a failed refresh while the cache holds the unexpired
\* token of another caller's refresh
C39_Witness ==
  /\ env.accessToken /\ env.refreshToken /\ env.appCredentials
  /\ tokenOp["c2"].returned /\ tokenOp["c2"].token = StaticAccessToken
  /\ cachedAccessToken # NoAccessToken /\ now < tokenExpiresAt
  /\ << cachedAccessToken, tokenExpiresAt >> \in refreshed

====
